---- MODULE Spec2Model ----
(***************************************************************************)
(* Model of the G-code surface-conforming rewriter of SurfacePlot          *)
(* (src/combine1.py, class GCodeEditorWidget) and of its helpers.          *)
(*                                                                         *)
(* Numbers are fixed-point integers: one unit is 10^-4, the resolution of  *)
(* the ".4f" output format.  A text line is a command token followed by a  *)
(* sequence of words; a word has a letter, an optional numeric value       *)
(* (absent when the numeric suffix does not parse) and the textual form    *)
(* it is written in.  Python's None is the empty sequence, a present       *)
(* value v is <<v>>.                                                       *)
(***************************************************************************)
EXTENDS Integers, Sequences, FiniteSets, TLC

\* ------------------------------------------------------------------ bounds
MaxLines == 2
MaxSteps == 2
MaxArcSteps == 2
MaxEdits == 1
MaxSegmentSteps == 10
MaxIterations == 2
MaxDuplicateLines == 4
MaxFileLines == 6
MaxReadings == 3
MaxGridSide == 3
MaxUndo == 2

\* ------------------------------------------------------- numeric helpers
Scale == 10000

Mm(n) == n * Scale

None == <<>>

Some(v) == <<v>>

Val(o) == o[1]

Abs(x) == IF x < 0 THEN -x ELSE x

\* nearest integer to n/d (d > 0), ties to even, as binary floating point
\* followed by fixed-precision formatting rounds
RoundDiv(n, d) ==
    LET q == n \div d
        r == n % d
    IN  IF 2 * r < d THEN q
        ELSE IF 2 * r > d THEN q + 1
        ELSE IF q % 2 = 0 THEN q ELSE q + 1

\* int(): truncation toward zero of a fixed-point value, result in whole units
TruncInt(v) == IF v >= 0 THEN v \div Scale ELSE -((-v) \div Scale)

\* squares and sums of squares exceed 32 bits: a wide number is <<h, l>>
\* standing for h * Scale + l with 0 <= l < Scale
WideSq(d) ==
    LET a == Abs(d) \div Scale
        b == Abs(d) % Scale
    IN  << a * a * Scale + 2 * a * b + ((b * b) \div Scale), (b * b) % Scale >>

WideAdd(p, q) == << p[1] + q[1] + ((p[2] + q[2]) \div Scale), (p[2] + q[2]) % Scale >>

WideLess(p, q) == p[1] < q[1] \/ (p[1] = q[1] /\ p[2] < q[2])

\* --------------------------------------------------------- text of a line
Letters == {"X", "Y", "Z", "F", "I", "J", "S"}

Word(l, v) == [l |-> l, v |-> Some(v), t |-> "raw"]

BadWord(l) == [l |-> l, v |-> None, t |-> "raw"]

Line(cmd, words) == [cmd |-> cmd, words |-> words]

\* line.startswith(p) for the command tokens that occur
StartsWith(line, p) ==
    CASE p = "G0" -> line.cmd \in {"G0"}
      [] p = "G1" -> line.cmd \in {"G1", "G17"}
      [] p = "G2" -> line.cmd \in {"G2", "G21"}
      [] p = "G3" -> line.cmd \in {"G3"}

\* "X" in line
HasLetter(line, l) == \E i \in DOMAIN line.words : line.words[i].l = l

\* re.search(r"Z\s*([-+]?\d*\.?\d+)", line)
HasZNumber(line) ==
    \E i \in DOMAIN line.words : line.words[i].l = "Z" /\ line.words[i].v # None

ZMatch(line) ==
    LET i == CHOOSE k \in DOMAIN line.words :
                 /\ line.words[k].l = "Z" /\ line.words[k].v # None
                 /\ \A m \in DOMAIN line.words :
                        (line.words[m].l = "Z" /\ line.words[m].v # None) => k <= m
    IN  Val(line.words[i].v)

\* re.sub(r"Z\s*([-+]?\d*\.?\d+)", f"Z{new_z:.4f}", line)
SubZ(line, new_z) ==
    [line EXCEPT !.words =
        [i \in DOMAIN line.words |->
            IF line.words[i].l = "Z" /\ line.words[i].v # None
            THEN [l |-> "Z", v |-> Some(new_z), t |-> "f4"]
            ELSE line.words[i]]]

\* dict.get(k)
Get(c, k) == IF k \in DOMAIN c THEN c[k] ELSE None

\* parse_coordinates without the branch for S
parse_coordinates_without_S(line) ==
    LET ws == line.words
        ks == {ws[i].l : i \in DOMAIN ws} \cap (Letters \ {"S"})
        last(k) == CHOOSE i \in DOMAIN ws :
                       ws[i].l = k /\ \A m \in DOMAIN ws : ws[m].l = k => m <= i
    IN  [k \in ks |-> ws[last(k)].v]

parse_coordinates(line) ==
    LET ws == line.words
        ks == {ws[i].l : i \in DOMAIN ws} \cap Letters
        last(k) == CHOOSE i \in DOMAIN ws :
                       ws[i].l = k /\ \A m \in DOMAIN ws : ws[m].l = k => m <= i
    IN  [k \in ks |-> ws[last(k)].v]

GenWord(coords, k) ==
    IF Get(coords, k) = None THEN <<>>
    ELSE CASE k \in {"X", "Y", "Z"} ->
                << [l |-> k, v |-> Some(Val(coords[k])), t |-> "f4"] >>
           [] k = "F" ->
                << [l |-> k, v |-> Some(RoundDiv(Val(coords[k]), Scale \div 10) * (Scale \div 10)),
                    t |-> "f1"] >>
           [] k = "S" ->
                << [l |-> k, v |-> Some(TruncInt(Val(coords[k])) * Scale), t |-> "d"] >>

\* generate_gcode_line with the S word written before the F word
generate_gcode_line_spindle_first(coords, command) ==
    Line(command, GenWord(coords, "X") \o GenWord(coords, "Y") \o GenWord(coords, "Z")
                    \o GenWord(coords, "S") \o GenWord(coords, "F"))

generate_gcode_line(coords, command) ==
    Line(command, GenWord(coords, "X") \o GenWord(coords, "Y") \o GenWord(coords, "Z")
                    \o GenWord(coords, "F") \o GenWord(coords, "S"))

\* ------------------------------------------------------ height sampler
\* np.mean(self.stl_mesh.vectors, axis=1): one centroid per triangle
Centroid(tri) ==
    [x |-> RoundDiv(tri[1][1] + tri[2][1] + tri[3][1], 3),
     y |-> RoundDiv(tri[1][2] + tri[2][2] + tri[3][2], 3),
     z |-> RoundDiv(tri[1][3] + tri[2][3] + tri[3][3], 3)]

\* squared planar distance of a centroid to (x, y); sqrt is monotone
PlanarDist2(c, x, y) == WideAdd(WideSq(c.x - x), WideSq(c.y - y))

\* np.argmin: the first index of a minimal distance
NearestIndex(vectors, x, y) ==
    CHOOSE i \in DOMAIN vectors :
        /\ \A k \in DOMAIN vectors :
               ~WideLess(PlanarDist2(Centroid(vectors[k]), x, y),
                         PlanarDist2(Centroid(vectors[i]), x, y))
        /\ \A k \in DOMAIN vectors :
               k < i => WideLess(PlanarDist2(Centroid(vectors[i]), x, y),
                                 PlanarDist2(Centroid(vectors[k]), x, y))

\* mesh, x, y are optional values; an exception inside (a None coordinate,
\* argmin of an empty array) is caught and turned into None
get_z_height_from_stl(mesh, x, y) ==
    IF mesh = None THEN None
    ELSE IF x = None \/ y = None THEN None
    ELSE IF Val(mesh) = <<>> THEN None
    ELSE Some(Centroid(Val(mesh)[NearestIndex(Val(mesh), Val(x), Val(y))]).z)

\* ----------------------------------------------------------- interpolation
\* a subscript start["X"] raises KeyError on a missing key, and arithmetic
\* on None raises TypeError
IsNum(c, k) == k \in DOMAIN c /\ c[k] # None

Lerp(a, b, i, steps) == a + RoundDiv((b - a) * i, steps)

\* interpolate_segment with the feed taken from the start point
interpolate_segment_start_feed(start, end, steps) ==
    [i \in 1..(steps + 1) |->
        [X |-> Some(Lerp(Val(start["X"]), Val(end["X"]), i - 1, steps)),
         Y |-> Some(Lerp(Val(start["Y"]), Val(end["Y"]), i - 1, steps)),
         Z |-> Some(Lerp(Val(start["Z"]), Val(end["Z"]), i - 1, steps)),
         F |-> Get(start, "F")]]

interpolate_segment(start, end, steps) ==
    [i \in 1..(steps + 1) |->
        [X |-> Some(Lerp(Val(start["X"]), Val(end["X"]), i - 1, steps)),
         Y |-> Some(Lerp(Val(start["Y"]), Val(end["Y"]), i - 1, steps)),
         Z |-> Some(Lerp(Val(start["Z"]), Val(end["Z"]), i - 1, steps)),
         F |-> Get(end, "F")]]

\* angles are whole degrees; the tables cover the multiples of 15 degrees
CosFirstQuadrant(d) ==
    CASE d = 0 -> 10000 [] d = 15 -> 9659 [] d = 30 -> 8660 [] d = 45 -> 7071
      [] d = 60 -> 5000 [] d = 75 -> 2588 [] d = 90 -> 0

Cos(deg) ==
    LET d == deg % 360
    IN  IF d <= 90 THEN CosFirstQuadrant(d)
        ELSE IF d <= 180 THEN -CosFirstQuadrant(180 - d)
        ELSE IF d <= 270 THEN -CosFirstQuadrant(d - 180)
        ELSE CosFirstQuadrant(360 - d)

Sin(deg) == Cos(deg - 90)

\* np.arctan2(dy, dx) in degrees, for directions along an axis or a diagonal
ArcTan2(dy, dx) ==
    CASE dy = 0 /\ dx >= 0 -> 0
      [] dy = 0 /\ dx < 0 -> 180
      [] dx = 0 /\ dy > 0 -> 90
      [] dx = 0 /\ dy < 0 -> -90
      [] dx > 0 /\ dy = dx -> 45
      [] dx > 0 /\ dy = -dx -> -45
      [] dx < 0 /\ dy = -dx -> 135
      [] dx < 0 /\ dy = dx -> -135

\* np.sqrt(i**2 + j**2), for an offset along an axis or a diagonal
Radius(i, j) ==
    CASE j = 0 -> Abs(i)
      [] i = 0 /\ j # 0 -> Abs(j)
      [] i # 0 /\ Abs(i) = Abs(j) -> RoundDiv(Abs(i) * 14142, Scale)

OrZero(o) == IF o = None THEN 0 ELSE Val(o)

\* lines 583-593: the angle theta of each of the steps + 1 points
arc_thetas(start, end, I, J, steps) ==
    LET center_x == Val(start["X"]) + OrZero(I)
        center_y == Val(start["Y"]) + OrZero(J)
        start_angle == ArcTan2(Val(start["Y"]) - center_y, Val(start["X"]) - center_x)
        end_angle0 == ArcTan2(Val(end["Y"]) - center_y, Val(end["X"]) - center_x)
        end_angle == IF end_angle0 > start_angle THEN end_angle0 - 360 ELSE end_angle0
        delta_angle == end_angle - start_angle
    IN  [i \in 1..(steps + 1) |-> start_angle + ((delta_angle * (i - 1)) \div steps)]

interpolate_arc(start, end, I, J, steps) ==
    LET center_x == Val(start["X"]) + OrZero(I)
        center_y == Val(start["Y"]) + OrZero(J)
        radius == Radius(OrZero(I), OrZero(J))
        theta == arc_thetas(start, end, I, J, steps)
    IN  [i \in 1..(steps + 1) |->
            [X |-> Some(center_x + RoundDiv(radius * Cos(theta[i]), Scale)),
             Y |-> Some(center_y + RoundDiv(radius * Sin(theta[i]), Scale)),
             Z |-> Some(Lerp(Val(start["Z"]), Val(end["Z"]), i - 1, steps)),
             F |-> Get(end, "F")]]

\* ------------------------------------------------------------ post-processing
IsG0G1(line) == StartsWith(line, "G0") \/ StartsWith(line, "G1")

\* coords["X"] += off for a present value, in half units (off2 = 2 * off),
\* rounded by the ".4f" of generate_gcode_line
Shift2(coords, k, off2) ==
    IF Get(coords, k) = None THEN coords
    ELSE [coords EXCEPT ![k] = Some(RoundDiv(2 * Val(coords[k]) + off2, 2))]

ShiftLines(lines, off2x, off2y) ==
    [n \in DOMAIN lines |->
        IF IsG0G1(lines[n])
        THEN generate_gcode_line(
                 Shift2(Shift2(parse_coordinates(lines[n]), "X", off2x), "Y", off2y),
                 lines[n].cmd)
        ELSE lines[n]]

apply_xy_offset_to_gcode(lines, off) == ShiftLines(lines, 2 * off[1], 2 * off[2])

\* a line written with more white space around it than its line end: the
\* text of `line` and the white space `pad`
Padded(line, pad) == [cmd |-> line.cmd, words |-> line.words, pad |-> pad]

\* line.strip()
strip(line) == [cmd |-> line.cmd, words |-> line.words]

\* remove_consecutive_duplicates_gcode comparing the lines as they are
remove_consecutive_duplicates_gcode_unstripped(lines) ==
    LET RECURSIVE Filter(_, _)
        Filter(kept, n) ==
            IF n > Len(lines) THEN kept
            ELSE IF lines[n] # kept[Len(kept)]
                 THEN Filter(Append(kept, lines[n]), n + 1)
                 ELSE Filter(kept, n + 1)
    IN  IF lines = <<>> THEN lines ELSE Filter(<<lines[1]>>, 2)

remove_consecutive_duplicates_gcode(lines) ==
    LET RECURSIVE Filter(_, _)
        Filter(kept, n) ==
            IF n > Len(lines) THEN kept
            ELSE IF strip(lines[n]) # strip(kept[Len(kept)])
                 THEN Filter(Append(kept, lines[n]), n + 1)
                 ELSE Filter(kept, n + 1)
    IN  IF lines = <<>> THEN lines ELSE Filter(<<lines[1]>>, 2)

Anchors == {"Top-Left", "Top-Center", "Top-Right", "Middle-Left", "Center",
            "Middle-Right", "Bottom-Left", "Bottom-Center", "Bottom-Right"}

AxisValues(lines, k) ==
    {Val(parse_coordinates(lines[n])[k]) :
        n \in {m \in DOMAIN lines :
                  IsG0G1(lines[m]) /\ Get(parse_coordinates(lines[m]), k) # None}}

SetMin(S) == CHOOSE m \in S : \A v \in S : m <= v

SetMax(S) == CHOOSE m \in S : \A v \in S : v <= m

\* twice the desired anchor, so that the midpoints stay whole
Desired2(choice, min_x, max_x, min_y, max_y) ==
    << CASE choice \in {"Top-Left", "Middle-Left", "Bottom-Left"} -> 2 * min_x
         [] choice \in {"Top-Center", "Center", "Bottom-Center"} -> min_x + max_x
         [] choice \in {"Top-Right", "Middle-Right", "Bottom-Right"} -> 2 * max_x,
       CASE choice \in {"Top-Left", "Top-Center", "Top-Right"} -> 2 * max_y
         [] choice \in {"Middle-Left", "Center", "Middle-Right"} -> min_y + max_y
         [] choice \in {"Bottom-Left", "Bottom-Center", "Bottom-Right"} -> 2 * min_y >>

apply_center_offset(lines, choice) ==
    LET xs == AxisValues(lines, "X")
        ys == AxisValues(lines, "Y")
    IN  IF xs = {} \/ ys = {} THEN lines
        ELSE LET min_x == SetMin(xs)
                 max_x == SetMax(xs)
                 min_y == SetMin(ys)
                 max_y == SetMax(ys)
                 d2 == Desired2(choice, min_x, max_x, min_y, max_y)
             IN  ShiftLines(lines, d2[1] - (min_x + max_x), d2[2] - (min_y + max_y))

\* ------------------------------------------------------------- parse_gcode
num_steps == 20

\* re.search(r'X([-+]?\d*\.?\d+)', line) finds a number after the letter
HasNumber(line, l) ==
    \E i \in DOMAIN line.words : line.words[i].l = l /\ line.words[i].v # None

\* float(re.search(...).group(1)): the first match in the line
FirstNumber(line, l) ==
    LET i == CHOOSE k \in DOMAIN line.words :
                 /\ line.words[k].l = l /\ line.words[k].v # None
                 /\ \A m \in DOMAIN line.words :
                        (line.words[m].l = l /\ line.words[m].v # None) => k <= m
    IN  Val(line.words[i].v)

\* {item[0]: float(item[1:]) for item in re.findall(r'[XYZIJ][-+]?\d*\.?\d+', line)}:
\* the last number of each letter, a word without a number is not found
gcode_parts(line) ==
    LET ws == line.words
        found == {i \in DOMAIN ws : ws[i].l \in {"X", "Y", "Z", "I", "J"} /\ ws[i].v # None}
        last(k) == CHOOSE i \in found : ws[i].l = k /\ \A m \in found : ws[m].l = k => m <= i
    IN  [k \in {ws[i].l : i \in found} |-> Some(Val(ws[last(k)].v))]

\* the angles of np.linspace(start_angle, end_angle, num_steps) are counted in
\* ticks of 1/(num_steps - 1) of a quarter turn
QuarterTurn == num_steps - 1

Ticks(deg) == (deg * QuarterTurn) \div 90

CosTickFirstQuadrant(k) ==
    CASE k = 0 -> 10000 [] k = 1 -> 9966 [] k = 2 -> 9864 [] k = 3 -> 9694
      [] k = 4 -> 9458 [] k = 5 -> 9158 [] k = 6 -> 8795 [] k = 7 -> 8372
      [] k = 8 -> 7891 [] k = 9 -> 7357 [] k = 10 -> 6773 [] k = 11 -> 6142
      [] k = 12 -> 5469 [] k = 13 -> 4759 [] k = 14 -> 4017 [] k = 15 -> 3247
      [] k = 16 -> 2455 [] k = 17 -> 1646 [] k = 18 -> 826 [] k = 19 -> 0

CosTick(t) ==
    LET d == t % (4 * QuarterTurn)
    IN  IF d <= QuarterTurn THEN CosTickFirstQuadrant(d)
        ELSE IF d <= 2 * QuarterTurn THEN -CosTickFirstQuadrant(2 * QuarterTurn - d)
        ELSE IF d <= 3 * QuarterTurn THEN -CosTickFirstQuadrant(d - 2 * QuarterTurn)
        ELSE CosTickFirstQuadrant(4 * QuarterTurn - d)

SinTick(t) == CosTick(t - QuarterTurn)

\* np.linspace(start_angle, end_angle, num_steps), angles given in degrees
linspace(start_angle, end_angle) ==
    [k \in 1..num_steps |->
        Ticks(start_angle) + (((Ticks(end_angle) - Ticks(start_angle)) * (k - 1))
                                 \div (num_steps - 1))]

\* lines 166-179: the angles of an arc line with I and J, from position pos
parse_gcode_angles(line, pos) ==
    LET parts == gcode_parts(line)
        center_x == pos[1] + Val(parts["I"])
        center_y == pos[2] + Val(parts["J"])
        end_x == IF "X" \in DOMAIN parts THEN Val(parts["X"]) ELSE pos[1]
        end_y == IF "Y" \in DOMAIN parts THEN Val(parts["Y"]) ELSE pos[2]
        start_angle == ArcTan2(pos[2] - center_y, pos[1] - center_x)
        end_angle == ArcTan2(end_y - center_y, end_x - center_x)
    IN  IF StartsWith(line, "G2")
        THEN linspace(start_angle, IF end_angle < start_angle THEN end_angle + 360
                                   ELSE end_angle)
        ELSE linspace(start_angle, IF end_angle > start_angle THEN end_angle - 360
                                   ELSE end_angle)

\* lines 180-184
parse_gcode_arc_points(line, pos) ==
    LET parts == gcode_parts(line)
        center_x == pos[1] + Val(parts["I"])
        center_y == pos[2] + Val(parts["J"])
        radius == Radius(Val(parts["I"]), Val(parts["J"]))
        angle == parse_gcode_angles(line, pos)
    IN  [k \in 1..num_steps |->
            << center_x + RoundDiv(radius * CosTick(angle[k]), Scale),
               center_y + RoundDiv(radius * SinTick(angle[k]), Scale),
               pos[3] >>]

\* `'X' in line` followed by re.search(...).group(1): None.group raises
\* AttributeError when the letter occurs without a number after it
SearchRaises(line) ==
    \E k \in {"X", "Y", "Z"} : HasLetter(line, k) /\ ~HasNumber(line, k)

\* lines 148-155: the point of a G0/G1 line
parse_gcode_move(line, pos) ==
    << IF HasLetter(line, "X") THEN FirstNumber(line, "X") ELSE pos[1],
       IF HasLetter(line, "Y") THEN FirstNumber(line, "Y") ELSE pos[2],
       IF HasLetter(line, "Z") THEN FirstNumber(line, "Z") ELSE pos[3] >>

\* lines 163-164, 188: the end coordinate of an arc line
parse_gcode_end(line, pos) ==
    LET parts == gcode_parts(line)
    IN  << IF "X" \in DOMAIN parts THEN Val(parts["X"]) ELSE pos[1],
           IF "Y" \in DOMAIN parts THEN Val(parts["Y"]) ELSE pos[2],
           pos[3] >>

\* `i is not None and j is not None`
HasCentre(line) == {"I", "J"} \subseteq DOMAIN gcode_parts(line)

\* ------------------------------------------------------- smooth_height_map
\* a grid is a sequence of rows of cells; a cell is NaN or <<v>>
NaN == <<>>

y_count(height_map) == Len(height_map)

x_count(height_map) == Len(height_map[1])

\* `abs(diff) > threshold`, False when diff is NaN
Exceeds(a, b, threshold) == a # NaN /\ b # NaN /\ Abs(Val(b) - Val(a)) > threshold

\* (a + b) / 2.0; the heights drawn are multiples of a power of two high
\* enough for every mean to be whole
Mean(a, b) == Some((Val(a) + Val(b)) \div 2)

\* AveragePair with the mean stored in the first cell only
AveragePairFirstCellOnly(st, j1, i1, j2, i2, threshold) ==
    IF Exceeds(st.grid[j1][i1], st.grid[j2][i2], threshold)
    THEN [grid |-> [st.grid EXCEPT
                       ![j1][i1] = Mean(st.grid[j1][i1], st.grid[j2][i2])],
          adjusted |-> TRUE]
    ELSE st

\* lines 99-104 / 106-111 on the pair of cells (j1, i1), (j2, i2)
AveragePair(st, j1, i1, j2, i2, threshold) ==
    IF Exceeds(st.grid[j1][i1], st.grid[j2][i2], threshold)
    THEN [grid |-> [st.grid EXCEPT
                       ![j1][i1] = Mean(st.grid[j1][i1], st.grid[j2][i2]),
                       ![j2][i2] = Mean(st.grid[j1][i1], st.grid[j2][i2])],
          adjusted |-> TRUE]
    ELSE st

\* SmoothCell without the comparison with the cell below
SmoothCellRightOnly(st, j, i, threshold) ==
    IF i < x_count(st.grid) THEN AveragePair(st, j, i, j, i + 1, threshold) ELSE st

\* lines 98-111: the body of the two inner loops at cell (j, i)
SmoothCell(st, j, i, threshold) ==
    LET right == IF i < x_count(st.grid)
                 THEN AveragePair(st, j, i, j, i + 1, threshold) ELSE st
    IN  IF j < y_count(st.grid) THEN AveragePair(right, j, i, j + 1, i, threshold)
        ELSE right

\* ---------------------------------------------------- parse_height_map_file
\* a line of the file, after strip(): a section header, a decimal number,
\* an empty line, or any other text
HeaderLine == [kind |-> "header", v |-> None]

NumberLine(v) == [kind |-> "number", v |-> Some(v)]

BlankLine == [kind |-> "blank", v |-> None]

TextLine == [kind |-> "text", v |-> None]

\* the line "--- Section n ---" that read_serial_data writes
SectionLine(n) == [kind |-> "section", v |-> Some(n)]

\* line.startswith("--- Bölüm")
IsHeader(line) == line.kind = "header"

\* `line` is true: the stripped line is not empty
NonEmpty(line) == line.kind # "blank"

\* float(line) returns, it does not raise ValueError
ParsesAsFloat(line) == line.kind = "number"

RECURSIVE max_length(_)
\* max(len(section) for section in sections), of a list that is not empty
max_length(secs) ==
    IF Len(secs) = 1 THEN Len(secs[1])
    ELSE LET rest == max_length(Tail(secs))
         IN  IF Len(secs[1]) > rest THEN Len(secs[1]) ELSE rest

\* np.full((len(sections), max_length), np.nan) with each section written
\* at the start of its row
full_grid(secs) ==
    [i \in 1..Len(secs) |->
        [j \in 1..max_length(secs) |->
            IF j <= Len(secs[i]) THEN Some(secs[i][j]) ELSE NaN]]

\* ------------------------------------- create_stl_mesh_from_height_map
\* self.x_step, self.y_step (lines 794-795)
x_step == Mm(2)

y_step == Mm(3)

\* the cells (j, i) of a grid in the order of the loops of lines 1071-1072,
\* 0-based as in the source
GridCells(height_map) ==
    IF y_count(height_map) = 0 THEN <<>>
    ELSE [k \in 1..(y_count(height_map) * x_count(height_map)) |->
             << (k - 1) \div x_count(height_map), (k - 1) % x_count(height_map) >>]

Cell(height_map, j, i) == height_map[j + 1][i + 1]

RECURSIVE SumAxis(_, _)
\* the sum of coordinate c of a list of vertices
SumAxis(vs, c) == IF vs = <<>> THEN 0 ELSE Head(vs)[c] + SumAxis(Tail(vs), c)

\* lines 1070-1080: one vertex for each cell that is not NaN, moved so that
\* the mean of the vertices is the origin
mesh_vertices(height_map) ==
    LET keep(c) == Cell(height_map, c[1], c[2]) # NaN
        cells == SelectSeq(GridCells(height_map), keep)
        made == [k \in 1..Len(cells) |->
                    << cells[k][2] * x_step, cells[k][1] * y_step,
                       Val(Cell(height_map, cells[k][1], cells[k][2])) >>]
    IN  [k \in 1..Len(made) |->
            [c \in 1..3 |-> made[k][c] - RoundDiv(SumAxis(made, c), Len(made))]]

\* lines 1082-1092: two faces for each block of four cells none of which is
\* NaN; v0..v3 are computed from the place of the cell in the full grid
mesh_faces(height_map) ==
    LET xc == x_count(height_map)
        whole(c) == /\ c[1] < y_count(height_map) - 1
                    /\ c[2] < xc - 1
                    /\ Cell(height_map, c[1], c[2]) # NaN
                    /\ Cell(height_map, c[1], c[2] + 1) # NaN
                    /\ Cell(height_map, c[1] + 1, c[2]) # NaN
                    /\ Cell(height_map, c[1] + 1, c[2] + 1) # NaN
        blocks == SelectSeq(GridCells(height_map), whole)
        v0(c) == c[1] * xc + c[2]
        v1(c) == c[1] * xc + (c[2] + 1)
        v2(c) == (c[1] + 1) * xc + c[2]
        v3(c) == (c[1] + 1) * xc + (c[2] + 1)
    IN  [k \in 1..(2 * Len(blocks)) |->
            LET c == blocks[(k + 1) \div 2]
            IN  IF k % 2 = 1 THEN << v0(c), v1(c), v2(c) >>
                ELSE << v2(c), v1(c), v3(c) >>]

\* line 1096: vertices[f[k], :] with an index past the end raises IndexError
mesh_raises(height_map) ==
    \E n \in DOMAIN mesh_faces(height_map) : \E k \in 1..3 :
        mesh_faces(height_map)[n][k] >= Len(mesh_vertices(height_map))

\* update_view (lines 1047-1064) raises when the mesh cannot be built, when
\* there is no vertex (vertices[:, 0] of an empty array, line 1042) and when
\* there is no face (np.hstack of arrays of different dimensions, line 1053)
update_view_raises(height_map) ==
    \/ y_count(height_map) = 0
    \/ mesh_raises(height_map)
    \/ mesh_vertices(height_map) = <<>>
    \/ mesh_faces(height_map) = <<>>

\* ------------------------------------------------------------------- state
VARIABLES
    file,                \* the G-code file on disk, as readlines() returns it
    stl_file,            \* the triangles of the STL file on disk
    offset_input,        \* the numbers in the offset text fields <<x, y, z>>
    steps_input,         \* the number in steps_input
    arc_steps_input,     \* the number in arc_steps_input
    gcode_lines,
    modified_gcode,
    stl_mesh,
    stl_mesh_original,
    interpolation_steps,
    arc_steps,
    center_choice,
    status,              \* outcome of the last handler
    edits,               \* centre transformations applied to modified_gcode
    pc,                  \* "idle", or the position inside modify_gcode
    handler,             \* the handler that called modify_gcode
    line_no,             \* index of the line the for loop is at
    new_lines,
    first_cut,
    current_pos,
    last_xy,
    new_coords,
    points,              \* segment_points / arc_points
    pt_no,               \* index of the point the inner for loop is at
    seg_start,           \* arguments and result of a call of interpolate_segment
    seg_end,
    seg_steps,
    seg_points,
    arc_start,           \* arguments and result of a call of interpolate_arc
    arc_end,
    arc_I,
    arc_J,
    arc_count,           \* the argument `steps`
    arc_points,
    arc_theta,           \* the value of theta at each point
    gcode_file,          \* the lines of the file parse_gcode reads
    gcode_pc,            \* "idle", or the position inside parse_gcode
    gcode_no,            \* index of the line the for loop is at
    coordinates,
    current_position,
    angles,              \* the angles of the last arc
    height_map,          \* the grid smooth_height_map works on, in place
    height_map_in,       \* the grid as it was passed in
    threshold,
    max_iterations,
    iteration,           \* passes executed
    adjusted,
    smooth_j,            \* the loop variables j and i, counted from 1
    smooth_i,
    smooth_pc,           \* "idle", or the position inside smooth_height_map
    duplicate_lines,     \* argument and result of remove_consecutive_duplicates_gcode
    filtered,
    duplicates_pc,       \* "idle", "called" or "returned"
    center_lines,        \* argument and result of apply_center_offset
    transformed_lines,
    center_pc,           \* "idle", "called" or "returned"
    line_coords,         \* arguments of generate_gcode_line
    line_command,
    generated_line,      \* generate_gcode_line(coords, command)
    parsed_coords,       \* parse_coordinates(generated_line)
    regenerated_line,    \* generate_gcode_line(parsed_coords, command)
    generate_pc,         \* "idle", "called", "generated", "parsed", "regenerated"
    map_lines,           \* the lines of the file read by parse_height_map_file
    map_no,              \* index of the line the loop is at
    sections,
    current_section,     \* None, or Some(list of readings)
    map_grid,            \* the array returned
    map_pc,              \* "idle", "lines", "returned", "raised", "loaded", "failed"
    self_height_map,     \* CombineWidget.height_map: None or Some(grid)
    saveButton,          \* enabled?
    smoothButton,        \* enabled?
    load_failed,         \* the message box of line 1033 was shown
    sample_mesh,         \* self.stl_mesh and the arguments of get_z_height_from_stl
    sample_x,
    sample_y,
    sample_z,            \* the value returned
    sample_pc,           \* "idle", "called" or "returned"
    serial_is_open,      \* self.serial_connection.is_open
    port_buffer,         \* the lines waiting at the port
    arrived,             \* how many lines the port has received
    reader_pc,           \* where the thread of read_serial_data is
    data_file,           \* the lines written to data.txt
    flushed,             \* how many of them have reached the disk
    file_state,          \* "none", "open" or "closed"
    section_counter,
    is_reading,
    elapsed,             \* time.time() - last_data_time, in quarters of a second
    written_at_stop,     \* None, or the lines written when the connection was closed
    mesh_height_map,     \* self.height_map in create_stl_mesh_from_height_map
    vertices,
    faces,
    mesh_pc,             \* "idle", "called", "returned" or "raised"
    letter_items,        \* the positions of the letters of the necklace
    undo_stack,
    redo_stack,
    last_call,           \* the last operation of the designer
    before_undo          \* letter_items, undo_stack, redo_stack before the last undo()

segment_call == <<seg_start, seg_end, seg_steps, seg_points>>

arc_call == <<arc_start, arc_end, arc_I, arc_J, arc_count, arc_points, arc_theta>>

gcode_parse == <<gcode_file, gcode_pc, gcode_no, coordinates, current_position, angles>>

rewriter_inputs == <<file, stl_file, offset_input, steps_input, arc_steps_input>>

smoothing == <<height_map, height_map_in, threshold, max_iterations, iteration,
               adjusted, smooth_j, smooth_i, smooth_pc>>

duplicates_call == <<duplicate_lines, filtered, duplicates_pc>>

center_call == <<center_lines, transformed_lines, center_pc>>

generate_call == <<line_coords, line_command, generated_line, parsed_coords, regenerated_line,
                   generate_pc>>

map_parse == <<map_lines, map_no, sections, current_section, map_grid, map_pc,
               self_height_map, saveButton, smoothButton, load_failed>>

sampler_call == <<sample_mesh, sample_x, sample_y, sample_z, sample_pc>>

serial == <<serial_is_open, port_buffer, arrived, reader_pc, data_file, flushed, file_state,
            section_counter, is_reading, elapsed, written_at_stop>>

mesh_call == <<mesh_height_map, vertices, faces, mesh_pc>>

designer == <<letter_items, undo_stack, redo_stack, last_call, before_undo>>

config == <<rewriter_inputs, segment_call, arc_call, gcode_parse, smoothing,
            duplicates_call, center_call, generate_call, map_parse, sampler_call,
            serial, mesh_call, designer>>

widget == <<gcode_lines, modified_gcode, stl_mesh, stl_mesh_original,
            interpolation_steps, arc_steps, center_choice, status, edits>>

locals == <<pc, handler, line_no, new_lines, first_cut, current_pos, last_xy,
            new_coords, points, pt_no>>

vars == <<config, widget, locals>>

\* ------------------------------------------------------------------ inputs
FileLines ==
    { Line("G0", <<Word("X", 0), Word("Y", 0), Word("Z", Mm(1))>>),
      Line("G1", <<Word("X", Mm(10)), Word("Y", 0), Word("Z", 0), Word("F", Mm(100))>>),
      Line("G1", <<Word("X", 0), Word("Y", 0), Word("Z", Mm(-1)), Word("S", Mm(500))>>),
      Line("G0", <<Word("X", Mm(10)), Word("Z", Mm(1))>>),
      Line("G0", <<BadWord("X"), Word("Y", 0), Word("Z", Mm(1))>>),
      Line("G2", <<Word("X", Mm(10)), Word("Y", 0), Word("I", Mm(5)), Word("J", 0),
                   Word("S", Mm(300))>>),
      Line("G3", <<Word("X", 0), Word("Y", 0), Word("I", Mm(-5)), Word("J", 0)>>),
      Line("M3", <<Word("S", Mm(1000))>>),
      Line("G17", <<>>),
      Line("G21", <<>>) }

EditLines ==
    { Line("G1", <<Word("X", 0), Word("Y", 0), Word("Z", Mm(-1)), Word("S", Mm(500))>>),
      Line("G1", <<Word("X", Mm(10)), Word("Y", 0), Word("Z", 0), Word("F", Mm(100))>>) }

Programs(alphabet) == UNION {[1..n -> alphabet] : n \in 0..MaxLines}

\* a flat surface at height 5, and a surface that is higher near x = 10
FlatMesh == << << <<0, 0, Mm(5)>>, <<Mm(30), 0, Mm(5)>>, <<0, Mm(30), Mm(5)>> >> >>

StepMesh == << << <<0, 0, Mm(5)>>, <<Mm(3), 0, Mm(5)>>, <<0, Mm(3), Mm(5)>> >>,
               << <<Mm(9), 0, Mm(7)>>, <<Mm(12), 0, Mm(7)>>, <<Mm(9), Mm(3), Mm(7)>> >> >>

Meshes == {FlatMesh, StepMesh}

Offsets == { <<0, 0, 0>>, <<Mm(1), 0, Mm(1)>> }

NoPosition == [k \in {"X", "Y", "Z", "F"} |-> None]

\* -------------------------------------------------------------------- Init
InitWidget ==
    /\ gcode_lines = <<>>
    /\ modified_gcode = <<>>
    /\ stl_mesh = None
    /\ stl_mesh_original = None
    /\ interpolation_steps = 10
    /\ arc_steps = 20
    /\ center_choice = "Center"
    /\ status = "waiting"
    /\ edits = 0
    /\ pc = "idle"
    /\ handler = "none"
    /\ line_no = 1
    /\ new_lines = <<>>
    /\ first_cut = TRUE
    /\ current_pos = NoPosition
    /\ last_xy = None
    /\ new_coords = NoPosition
    /\ points = <<>>
    /\ pt_no = 1

NoSegmentCall ==
    /\ seg_start = NoPosition
    /\ seg_end = NoPosition
    /\ seg_steps = 1
    /\ seg_points = <<>>

NoArcCall ==
    /\ arc_start = NoPosition
    /\ arc_end = NoPosition
    /\ arc_I = None
    /\ arc_J = None
    /\ arc_count = 1
    /\ arc_points = <<>>
    /\ arc_theta = <<>>

\* line 142: current_position = [0.0, 0.0, 0.2]
StartPosition == <<0, 0, 2000>>

NoGcodeParse ==
    /\ gcode_file = <<>>
    /\ gcode_pc = "idle"
    /\ gcode_no = 1
    /\ coordinates = <<>>
    /\ current_position = StartPosition
    /\ angles = <<>>

NoSmoothing ==
    /\ height_map = <<>>
    /\ height_map_in = <<>>
    /\ threshold = 0
    /\ max_iterations = 0
    /\ iteration = 0
    /\ adjusted = FALSE
    /\ smooth_j = 1
    /\ smooth_i = 1
    /\ smooth_pc = "idle"

NoDuplicatesCall ==
    /\ duplicate_lines = <<>>
    /\ filtered = <<>>
    /\ duplicates_pc = "idle"

NoCenterCall ==
    /\ center_lines = <<>>
    /\ transformed_lines = <<>>
    /\ center_pc = "idle"

NoGenerateCall ==
    /\ line_coords = <<>>
    /\ line_command = "G1"
    /\ generated_line = None
    /\ parsed_coords = <<>>
    /\ regenerated_line = None
    /\ generate_pc = "idle"

NoMapParse ==
    /\ map_lines = <<>>
    /\ map_no = 1
    /\ sections = <<>>
    /\ current_section = None
    /\ map_grid = <<>>
    /\ map_pc = "idle"
    /\ self_height_map = None
    /\ saveButton = FALSE
    /\ smoothButton = FALSE
    /\ load_failed = FALSE

NoSamplerCall ==
    /\ sample_mesh = None
    /\ sample_x = None
    /\ sample_y = None
    /\ sample_z = None
    /\ sample_pc = "idle"

NoSerial ==
    /\ serial_is_open = FALSE
    /\ port_buffer = <<>>
    /\ arrived = 0
    /\ reader_pc = "idle"
    /\ data_file = <<>>
    /\ flushed = 0
    /\ file_state = "none"
    /\ section_counter = 1
    /\ is_reading = FALSE
    /\ elapsed = 0
    /\ written_at_stop = None

NoMeshCall ==
    /\ mesh_height_map = <<>>
    /\ vertices = <<>>
    /\ faces = <<>>
    /\ mesh_pc = "idle"

NoDesigner ==
    /\ letter_items = <<>>
    /\ undo_stack = <<>>
    /\ redo_stack = <<>>
    /\ last_call = "none"
    /\ before_undo = None

\* the rewriter with nothing loaded
NoRewriter ==
    /\ file = <<>>
    /\ stl_file = FlatMesh
    /\ offset_input = <<0, 0, 0>>
    /\ steps_input = 1
    /\ arc_steps_input = 1
    /\ InitWidget

\* every function but the one under study has not been called
IdleExcept(study) ==
    /\ (study = "segment" \/ NoSegmentCall)
    /\ (study = "arc" \/ NoArcCall)
    /\ (study = "parse_gcode" \/ NoGcodeParse)
    /\ (study = "smooth" \/ NoSmoothing)
    /\ (study = "duplicates" \/ NoDuplicatesCall)
    /\ (study = "center" \/ NoCenterCall)
    /\ (study = "generate" \/ NoGenerateCall)
    /\ (study = "height_map_file" \/ NoMapParse)
    /\ (study = "sampler" \/ NoSamplerCall)
    /\ (study = "serial" \/ NoSerial)
    /\ (study = "mesh" \/ NoMeshCall)
    /\ (study = "designer" \/ NoDesigner)

Init ==
    /\ file \in Programs(FileLines)
    /\ stl_file \in Meshes
    /\ offset_input = <<0, 0, 0>>
    /\ steps_input \in 1..MaxSteps
    /\ arc_steps_input \in 1..MaxArcSteps
    /\ InitWidget
    /\ IdleExcept("rewriter")

\* ----------------------------------------------------------------- loading
ShiftMesh(vectors, off) ==
    [t \in DOMAIN vectors |->
        [v \in 1..3 |-> << vectors[t][v][1] + off[1],
                           vectors[t][v][2] + off[2],
                           vectors[t][v][3] + off[3] >>]]

\* the mesh update_stl_offset leaves in self.stl_mesh
update_stl_offset(mesh, original) ==
    IF original # None THEN Some(ShiftMesh(Val(original), offset_input)) ELSE mesh

load_stl ==
    /\ pc = "idle"
    /\ stl_mesh_original' = Some(stl_file)
    /\ stl_mesh' = update_stl_offset(Some(stl_file), Some(stl_file))
    /\ status' = "stl loaded"
    /\ UNCHANGED <<config, gcode_lines, modified_gcode, interpolation_steps, arc_steps,
                   center_choice, edits, locals>>

load_gcode ==
    /\ pc = "idle"
    /\ gcode_lines' = file
    /\ status' = "gcode loaded"
    /\ UNCHANGED <<config, modified_gcode, stl_mesh, stl_mesh_original,
                   interpolation_steps, arc_steps, center_choice, edits, locals>>

\* `not self.stl_mesh or not self.gcode_lines`
NothingLoaded == stl_mesh = None \/ Val(stl_mesh) = <<>> \/ gcode_lines = <<>>

\* the first four statements of modify_gcode
EnterModifyGcode(h) ==
    /\ pc' = "lines"
    /\ handler' = h
    /\ line_no' = 1
    /\ new_lines' = <<>>
    /\ first_cut' = TRUE
    /\ current_pos' = NoPosition
    /\ last_xy' = None
    /\ new_coords' = NoPosition
    /\ points' = <<>>
    /\ pt_no' = 1

generate_new_gcode ==
    /\ pc = "idle"
    /\ IF NothingLoaded
       THEN /\ status' = "warning"
            /\ UNCHANGED <<config, gcode_lines, modified_gcode, stl_mesh, stl_mesh_original,
                           interpolation_steps, arc_steps, center_choice, edits, locals>>
       ELSE /\ interpolation_steps' = steps_input
            /\ arc_steps' = arc_steps_input
            /\ stl_mesh' = update_stl_offset(stl_mesh, stl_mesh_original)
            /\ EnterModifyGcode("generate")
            /\ UNCHANGED <<config, gcode_lines, modified_gcode, stl_mesh_original,
                           center_choice, status, edits>>

\* ------------------------------------------------------------ modify_gcode
\* lines 499-520: the sampled height of a G0 line that carries a Z number,
\* None when the line is left to the general branch
RapidSample(line) ==
    IF ~(StartsWith(line, "G0") /\ HasZNumber(line)) THEN None
    ELSE IF HasLetter(line, "X") /\ HasLetter(line, "Y")
         THEN get_z_height_from_stl(stl_mesh, Get(parse_coordinates(line), "X"),
                                    Get(parse_coordinates(line), "Y"))
         ELSE IF last_xy # None
              THEN get_z_height_from_stl(stl_mesh, Val(last_xy)["X"], Val(last_xy)["Y"])
              ELSE None

RapidLine(line) ==
    IF HasLetter(line, "X") /\ HasLetter(line, "Y")
    THEN SubZ(line, Val(parse_coordinates(line)["Z"]) + Val(RapidSample(line)))
    ELSE SubZ(line, ZMatch(line) + Val(RapidSample(line)))

\* lines 523-526: axes missing on the line inherit current_pos, else 0
FillCoords(line) ==
    LET c == parse_coordinates(line)
    IN  [k \in DOMAIN c \cup {"X", "Y", "Z", "F"} |->
            IF k \in {"X", "Y", "Z", "F"}
            THEN IF Get(c, k) # None THEN c[k]
                 ELSE IF Get(current_pos, k) # None THEN current_pos[k]
                 ELSE Some(0)
            ELSE c[k]]

\* lines 545-546: new_coords.get("Z", current_pos.get("Z", 0))
ArcCoords(line) ==
    LET c == parse_coordinates(line)
    IN  [k \in DOMAIN c \cup {"Z"} |->
            IF k = "Z"
            THEN IF "Z" \in DOMAIN c THEN c["Z"]
                 ELSE IF "Z" \in DOMAIN current_pos THEN current_pos["Z"]
                 ELSE Some(0)
            ELSE c[k]]

\* `current_pos["X"] is None or current_pos["Y"] is None`
PositionKeyError ==
    \/ "X" \notin DOMAIN current_pos
    \/ (current_pos["X"] # None /\ "Y" \notin DOMAIN current_pos)

NoCurrentPosition == current_pos["X"] = None \/ current_pos["Y"] = None

Raise ==
    /\ pc' = "idle"
    /\ status' = "error"
    /\ UNCHANGED <<config, gcode_lines, modified_gcode, stl_mesh, stl_mesh_original,
                   interpolation_steps, arc_steps, center_choice, edits,
                   handler, line_no, new_lines, first_cut, current_pos, last_xy,
                   new_coords, points, pt_no>>

Continue(out, pos, xy) ==
    /\ new_lines' = Append(new_lines, out)
    /\ current_pos' = pos
    /\ last_xy' = xy
    /\ line_no' = line_no + 1
    /\ UNCHANGED <<config, widget, pc, handler, first_cut, new_coords, points, pt_no>>

EnterPoints(pts, coords, xy) ==
    /\ points' = pts
    /\ pt_no' = 1
    /\ new_coords' = coords
    /\ last_xy' = xy
    /\ pc' = "points"
    /\ UNCHANGED <<config, widget, handler, line_no, new_lines, first_cut, current_pos>>

\* one iteration of `for line in self.gcode_lines`, up to the inner loop
modify_gcode_line ==
    /\ pc = "lines"
    /\ line_no <= Len(gcode_lines)
    /\ LET line == gcode_lines[line_no]
       IN  IF RapidSample(line) # None
           THEN Continue(RapidLine(line), current_pos,
                         IF HasLetter(line, "X") /\ HasLetter(line, "Y")
                         THEN Some([X |-> parse_coordinates(line)["X"],
                                    Y |-> parse_coordinates(line)["Y"]])
                         ELSE last_xy)
           ELSE IF StartsWith(line, "G0") \/ StartsWith(line, "G1")
           THEN LET nc == FillCoords(line)
                    xy == Some([X |-> nc["X"], Y |-> nc["Y"]])
                IN  IF PositionKeyError THEN Raise
                    ELSE IF NoCurrentPosition
                    THEN Continue(generate_gcode_line(nc, line.cmd), nc, xy)
                    ELSE IF ~IsNum(current_pos, "Z") THEN Raise
                    ELSE EnterPoints(interpolate_segment(current_pos, nc, interpolation_steps),
                                     nc, xy)
           ELSE IF StartsWith(line, "G2")
           THEN LET nc == ArcCoords(line)
                IN  IF PositionKeyError THEN Raise
                    ELSE IF NoCurrentPosition THEN Continue(line, nc, last_xy)
                    ELSE IF ~(IsNum(current_pos, "Z") /\ IsNum(nc, "X")
                              /\ IsNum(nc, "Y") /\ IsNum(nc, "Z")) THEN Raise
                    ELSE EnterPoints(interpolate_arc(current_pos, nc, Get(nc, "I"),
                                                     Get(nc, "J"), arc_steps),
                                     nc, last_xy)
           ELSE Continue(line, current_pos, last_xy)

\* lines 535-540 / 555-560: the Z a point is given
ConformedPoint(pt) ==
    LET stl_z == get_z_height_from_stl(stl_mesh, pt["X"], pt["Y"])
    IN  IF stl_z # None
        THEN IF first_cut
             THEN [pt EXCEPT !["Z"] = stl_z]
             ELSE [pt EXCEPT !["Z"] = Some(Val(stl_z) - Abs(Val(pt["Z"])))]
        ELSE pt

\* one iteration of `for pt in segment_points` / `for pt in arc_points`
modify_gcode_point ==
    /\ pc = "points"
    /\ pt_no <= Len(points)
    /\ new_lines' = Append(new_lines, generate_gcode_line(ConformedPoint(points[pt_no]), "G1"))
    /\ pt_no' = pt_no + 1
    /\ UNCHANGED <<config, widget, pc, handler, line_no, first_cut, current_pos, last_xy,
                   new_coords, points>>

\* lines 542-543 / 562-563, after the inner loop
modify_gcode_segment_done ==
    /\ pc = "points"
    /\ pt_no > Len(points)
    /\ first_cut' = FALSE
    /\ current_pos' = new_coords
    /\ line_no' = line_no + 1
    /\ pc' = "lines"
    /\ UNCHANGED <<config, widget, handler, last_xy, new_lines, new_coords, points, pt_no>>

\* modify_gcode_return with the result also stored over the loaded lines
modify_gcode_return_in_place ==
    /\ pc = "lines"
    /\ line_no > Len(gcode_lines)
    /\ pc' = "idle"
    /\ modified_gcode' =
           IF handler = "generate"
           THEN apply_xy_offset_to_gcode(new_lines, offset_input)
           ELSE remove_consecutive_duplicates_gcode(apply_center_offset(new_lines, center_choice))
    /\ gcode_lines' = modified_gcode'
    /\ status' = IF handler = "generate" THEN "generated" ELSE "saved"
    /\ edits' = 0
    /\ UNCHANGED <<config, stl_mesh, stl_mesh_original, interpolation_steps,
                   arc_steps, center_choice, handler, line_no, new_lines, first_cut,
                   current_pos, last_xy, new_coords, points, pt_no>>

\* `return new_lines`, and the rest of the handler that called modify_gcode
modify_gcode_return ==
    /\ pc = "lines"
    /\ line_no > Len(gcode_lines)
    /\ pc' = "idle"
    /\ modified_gcode' =
           IF handler = "generate"
           THEN apply_xy_offset_to_gcode(new_lines, offset_input)
           ELSE remove_consecutive_duplicates_gcode(apply_center_offset(new_lines, center_choice))
    /\ status' = IF handler = "generate" THEN "generated" ELSE "saved"
    /\ edits' = 0
    /\ UNCHANGED <<config, gcode_lines, stl_mesh, stl_mesh_original, interpolation_steps,
                   arc_steps, center_choice, handler, line_no, new_lines, first_cut,
                   current_pos, last_xy, new_coords, points, pt_no>>

Next ==
    \/ load_stl
    \/ load_gcode
    \/ generate_new_gcode
    \/ modify_gcode_line
    \/ modify_gcode_point
    \/ modify_gcode_segment_done
    \/ modify_gcode_return

Spec == Init /\ [][Next]_vars

\* ------------------------------------------------- the other edit handlers
radio_button_changed ==
    /\ pc = "idle"
    /\ \E choice \in Anchors : center_choice' = choice
    /\ UNCHANGED <<config, gcode_lines, modified_gcode, stl_mesh, stl_mesh_original,
                   interpolation_steps, arc_steps, status, edits, locals>>

apply_center_transformation ==
    /\ pc = "idle"
    /\ edits < MaxEdits
    /\ IF \/ modified_gcode = <<>>
          \/ AxisValues(modified_gcode, "X") = {}
          \/ AxisValues(modified_gcode, "Y") = {}
       THEN /\ status' = "warning"
            /\ UNCHANGED <<modified_gcode, edits>>
       ELSE /\ modified_gcode' = apply_center_offset(modified_gcode, center_choice)
            /\ status' = "centered"
            /\ edits' = edits + 1
    /\ UNCHANGED <<config, gcode_lines, stl_mesh, stl_mesh_original, interpolation_steps,
                   arc_steps, center_choice, locals>>

remove_duplicate_lines ==
    /\ pc = "idle"
    /\ IF modified_gcode = <<>>
       THEN /\ status' = "warning"
            /\ UNCHANGED modified_gcode
       ELSE /\ modified_gcode' = remove_consecutive_duplicates_gcode(modified_gcode)
            /\ status' = "deduplicated"
    /\ UNCHANGED <<config, gcode_lines, stl_mesh, stl_mesh_original, interpolation_steps,
                   arc_steps, center_choice, edits, locals>>

save_gcode ==
    /\ pc = "idle"
    /\ IF NothingLoaded
       THEN /\ status' = "warning"
            /\ UNCHANGED <<config, gcode_lines, modified_gcode, stl_mesh, stl_mesh_original,
                           interpolation_steps, arc_steps, center_choice, edits, locals>>
       ELSE /\ interpolation_steps' = steps_input
            /\ arc_steps' = arc_steps_input
            /\ EnterModifyGcode("save")
            /\ UNCHANGED <<config, gcode_lines, modified_gcode, stl_mesh, stl_mesh_original,
                           center_choice, status, edits>>

InitEdit ==
    /\ file \in Programs(EditLines)
    /\ stl_file = FlatMesh
    /\ offset_input \in Offsets
    /\ steps_input = 1
    /\ arc_steps_input = 1
    /\ InitWidget
    /\ IdleExcept("rewriter")

NextEdit ==
    \/ load_stl
    \/ load_gcode
    \/ generate_new_gcode
    \/ save_gcode
    \/ modify_gcode_line
    \/ modify_gcode_point
    \/ modify_gcode_segment_done
    \/ modify_gcode_return
    \/ radio_button_changed
    \/ apply_center_transformation
    \/ remove_duplicate_lines

SpecEdit == InitEdit /\ [][NextEdit]_vars

\* ------------------------------------------- interpolate_segment on its own
SegmentValues == {0, 1, Mm(5), Mm(10), Mm(-1)}

SegmentFeeds == {None, Some(Mm(100)), Some(Mm(250))}

InitSegment ==
    /\ NoRewriter
    /\ IdleExcept("segment")
    /\ \E x \in {0, 1}, z \in {0, Mm(-1)}, f \in SegmentFeeds :
           seg_start = [X |-> Some(x), Y |-> Some(0), Z |-> Some(z), F |-> f]
    /\ \E x \in SegmentValues, y \in {0, Mm(10)}, z \in {0, Mm(5)}, f \in SegmentFeeds :
           seg_end = [X |-> Some(x), Y |-> Some(y), Z |-> Some(z), F |-> f]
    /\ seg_steps \in 1..MaxSegmentSteps
    /\ seg_points = <<>>

CallInterpolateSegment ==
    /\ seg_points = <<>>
    /\ seg_points' = interpolate_segment(seg_start, seg_end, seg_steps)
    /\ UNCHANGED <<rewriter_inputs, widget, locals, seg_start, seg_end, seg_steps,
                   arc_call, gcode_parse, smoothing, duplicates_call, center_call,
                   generate_call, map_parse, sampler_call, serial, mesh_call, designer>>

NextSegment == CallInterpolateSegment

SpecSegment == InitSegment /\ [][NextSegment]_vars

\* ----------------------------------------------- interpolate_arc on its own
\* the start point is the origin; the centre offsets and the end points are
\* those that keep the directions from the centre to both on an axis
ArcOffsets == {None, Some(0), Some(Mm(10))}

ArcEnds == {Mm(-10), 0, Mm(10), Mm(20)}

OnAxis(dx, dy) == dx = 0 \/ dy = 0

InitArc ==
    /\ NoRewriter
    /\ IdleExcept("arc")
    /\ \E z \in {0, Mm(-1)} :
           arc_start = [X |-> Some(0), Y |-> Some(0), Z |-> Some(z), F |-> None]
    /\ arc_I \in ArcOffsets
    /\ arc_J \in ArcOffsets
    /\ OnAxis(OrZero(arc_I), OrZero(arc_J))
    /\ \E x \in ArcEnds, y \in ArcEnds, f \in {None, Some(Mm(100))} :
           /\ OnAxis(x - OrZero(arc_I), y - OrZero(arc_J))
           /\ arc_end = [X |-> Some(x), Y |-> Some(y), Z |-> Some(0), F |-> f]
    /\ arc_count \in 1..MaxArcSteps
    /\ arc_points = <<>>
    /\ arc_theta = <<>>

CallInterpolateArc ==
    /\ arc_points = <<>>
    /\ arc_points' = interpolate_arc(arc_start, arc_end, arc_I, arc_J, arc_count)
    /\ arc_theta' = arc_thetas(arc_start, arc_end, arc_I, arc_J, arc_count)
    /\ UNCHANGED <<rewriter_inputs, widget, locals, segment_call, gcode_parse,
                   smoothing, duplicates_call, center_call, generate_call, map_parse, arc_start, arc_end, arc_I, arc_J, arc_count,
                   sampler_call, serial, mesh_call, designer>>

NextArc == CallInterpolateArc

SpecArc == InitArc /\ [][NextArc]_vars

\* ---------------------------------------------------- parse_gcode on its own
\* every line keeps the path on the X axis, so that the directions from an
\* arc centre stay on the axis
GcodeFileLines ==
    { Line("G1", <<Word("X", Mm(10)), Word("Z", Mm(1))>>),
      Line("G0", <<Word("X", 0)>>),
      Line("G1", <<BadWord("X"), Word("Y", 0)>>),
      Line("G2", <<Word("X", Mm(10)), Word("I", Mm(5)), Word("J", 0)>>),
      Line("G3", <<Word("X", 0), Word("I", Mm(-5)), Word("J", 0)>>),
      Line("G2", <<Word("X", Mm(10))>>),
      Line("G3", <<Word("X", Mm(5)), BadWord("I"), Word("J", 0)>>),
      Line("M3", <<Word("S", Mm(1000))>>) }

InitParseGcode ==
    /\ NoRewriter
    /\ IdleExcept("parse_gcode")
    /\ gcode_file \in Programs(GcodeFileLines)
    /\ gcode_pc = "lines"
    /\ gcode_no = 1
    /\ coordinates = <<>>
    /\ current_position = StartPosition
    /\ angles = <<>>

\* one iteration of `for line in lines`
parse_gcode_line ==
    /\ gcode_pc = "lines"
    /\ gcode_no <= Len(gcode_file)
    /\ LET line == gcode_file[gcode_no]
       IN  IF StartsWith(line, "G1") \/ StartsWith(line, "G0")
           THEN IF SearchRaises(line)
                THEN /\ gcode_pc' = "raised"
                     /\ UNCHANGED <<gcode_no, coordinates, current_position, angles>>
                ELSE /\ coordinates' = Append(coordinates,
                                              parse_gcode_move(line, current_position))
                     /\ current_position' = parse_gcode_move(line, current_position)
                     /\ gcode_no' = gcode_no + 1
                     /\ UNCHANGED <<gcode_pc, angles>>
           ELSE IF StartsWith(line, "G2") \/ StartsWith(line, "G3")
           THEN IF HasCentre(line)
                THEN /\ angles' = parse_gcode_angles(line, current_position)
                     /\ coordinates' =
                            coordinates \o parse_gcode_arc_points(line, current_position)
                     /\ current_position' =
                            parse_gcode_arc_points(line, current_position)[num_steps]
                     /\ gcode_no' = gcode_no + 1
                     /\ UNCHANGED gcode_pc
                ELSE /\ coordinates' = Append(coordinates,
                                              parse_gcode_end(line, current_position))
                     /\ current_position' = parse_gcode_end(line, current_position)
                     /\ gcode_no' = gcode_no + 1
                     /\ UNCHANGED <<gcode_pc, angles>>
           ELSE /\ gcode_no' = gcode_no + 1
                /\ UNCHANGED <<gcode_pc, coordinates, current_position, angles>>
    /\ UNCHANGED <<rewriter_inputs, widget, locals, segment_call, arc_call, smoothing,
                   duplicates_call, center_call, generate_call, map_parse, gcode_file,
                   sampler_call, serial, mesh_call, designer>>

\* `return np.array(coordinates)`
parse_gcode_return ==
    /\ gcode_pc = "lines"
    /\ gcode_no > Len(gcode_file)
    /\ gcode_pc' = "returned"
    /\ UNCHANGED <<rewriter_inputs, widget, locals, segment_call, arc_call, smoothing,
                   duplicates_call, center_call, generate_call, map_parse, gcode_file, gcode_no, coordinates, current_position, angles,
                   sampler_call, serial, mesh_call, designer>>

NextParseGcode ==
    \/ parse_gcode_line
    \/ parse_gcode_return

SpecParseGcode == InitParseGcode /\ [][NextParseGcode]_vars

\* ---------------------------------------------- smooth_height_map on its own
\* one height step of the grids drawn; a pass averages at most four pairs
\* (2 x 2 grid), each mean halves the step once
HeightUnit == 2 ^ (4 * (MaxIterations + 1))

Heights == {NaN, Some(0), Some(HeightUnit), Some(10 * HeightUnit)}

Grids == [1..2 -> [1..2 -> Heights]] \cup [1..1 -> [1..3 -> Heights]]

Thresholds == {HeightUnit \div 2, 2 * HeightUnit}

InitSmooth ==
    /\ NoRewriter
    /\ IdleExcept("smooth")
    /\ NoSmoothing

\* the call smooth_height_map(height_map, threshold, max_iterations) and
\* line 93
smooth_height_map_call ==
    /\ smooth_pc = "idle"
    /\ \E grid \in Grids : height_map' = grid /\ height_map_in' = grid
    /\ threshold' \in Thresholds
    /\ max_iterations' \in 0..MaxIterations
    /\ iteration' = 0
    /\ adjusted' = FALSE
    /\ smooth_pc' = "loop"
    /\ UNCHANGED <<rewriter_inputs, widget, locals, segment_call, arc_call, gcode_parse,
                   duplicates_call, center_call, generate_call, map_parse,
                   smooth_j, smooth_i, sampler_call, serial, mesh_call, designer>>

\* lines 94-95: the next iteration of `for _ in range(max_iterations)`
smooth_height_map_pass ==
    /\ smooth_pc = "loop"
    /\ iteration < max_iterations
    /\ adjusted' = FALSE
    /\ smooth_j' = 1
    /\ smooth_i' = 1
    /\ smooth_pc' = "cells"
    /\ UNCHANGED <<rewriter_inputs, widget, locals, segment_call, arc_call, gcode_parse,
                   duplicates_call, center_call, generate_call, map_parse,
                   height_map, height_map_in, threshold, max_iterations, iteration,
                   sampler_call, serial, mesh_call, designer>>

\* the loops of lines 96-97 exchanged: the cells of a column, then the next column
smooth_height_map_cell_by_columns ==
    /\ smooth_pc = "cells"
    /\ smooth_j <= y_count(height_map)
    /\ LET st == SmoothCell([grid |-> height_map, adjusted |-> adjusted],
                            smooth_i, smooth_j, threshold)
       IN  /\ height_map' = st.grid
           /\ adjusted' = st.adjusted
    /\ IF smooth_i < y_count(height_map)
       THEN smooth_i' = smooth_i + 1 /\ smooth_j' = smooth_j
       ELSE /\ smooth_i' = 1
            /\ smooth_j' = IF smooth_j < x_count(height_map)
                           THEN smooth_j + 1 ELSE y_count(height_map) + 1
    /\ UNCHANGED <<rewriter_inputs, widget, locals, segment_call, arc_call, gcode_parse,
                   duplicates_call, center_call, generate_call, map_parse,
                   height_map_in, threshold, max_iterations, iteration, smooth_pc, sampler_call,
                   serial, mesh_call, designer>>

\* lines 96-111: one iteration of the loops over j and i
smooth_height_map_cell ==
    /\ smooth_pc = "cells"
    /\ smooth_j <= y_count(height_map)
    /\ LET st == SmoothCell([grid |-> height_map, adjusted |-> adjusted],
                            smooth_j, smooth_i, threshold)
       IN  /\ height_map' = st.grid
           /\ adjusted' = st.adjusted
    /\ IF smooth_i < x_count(height_map)
       THEN smooth_i' = smooth_i + 1 /\ smooth_j' = smooth_j
       ELSE smooth_i' = 1 /\ smooth_j' = smooth_j + 1
    /\ UNCHANGED <<rewriter_inputs, widget, locals, segment_call, arc_call, gcode_parse,
                   duplicates_call, center_call, generate_call, map_parse,
                   height_map_in, threshold, max_iterations, iteration, smooth_pc,
                   sampler_call, serial, mesh_call, designer>>

\* lines 112-113: the end of a pass
smooth_height_map_pass_end ==
    /\ smooth_pc = "cells"
    /\ smooth_j > y_count(height_map)
    /\ iteration' = iteration + 1
    /\ smooth_pc' = IF adjusted THEN "loop" ELSE "break"
    /\ UNCHANGED <<rewriter_inputs, widget, locals, segment_call, arc_call, gcode_parse,
                   duplicates_call, center_call, generate_call, map_parse,
                   height_map, height_map_in, threshold, max_iterations, adjusted,
                   smooth_j, smooth_i, sampler_call, serial, mesh_call, designer>>

\* `return height_map`
smooth_height_map_return ==
    /\ smooth_pc = "break" \/ (smooth_pc = "loop" /\ iteration >= max_iterations)
    /\ smooth_pc' = "returned"
    /\ UNCHANGED <<rewriter_inputs, widget, locals, segment_call, arc_call, gcode_parse,
                   duplicates_call, center_call, generate_call, map_parse,
                   height_map, height_map_in, threshold, max_iterations, iteration,
                   adjusted, smooth_j, smooth_i, sampler_call, serial, mesh_call, designer>>

NextSmooth ==
    \/ smooth_height_map_call
    \/ smooth_height_map_pass
    \/ smooth_height_map_cell
    \/ smooth_height_map_pass_end
    \/ smooth_height_map_return

SpecSmooth == InitSmooth /\ [][NextSmooth]_vars

\* the loop is sequential code that runs to its end once it is called
SpecSmoothFair == SpecSmooth /\ WF_vars(NextSmooth)

\* --------------------------- remove_consecutive_duplicates_gcode on its own
\* 'G1 X0', the same text followed by a blank, and 'G1 X1'
DuplicateLines ==
    { Line("G1", <<Word("X", 0)>>),
      Padded(Line("G1", <<Word("X", 0)>>), "blank"),
      Line("G1", <<Word("X", Mm(1))>>) }

InitDuplicates ==
    /\ NoRewriter
    /\ IdleExcept("duplicates")
    /\ duplicate_lines \in UNION {[1..n -> DuplicateLines] : n \in 0..MaxDuplicateLines}
    /\ filtered = <<>>
    /\ duplicates_pc = "called"

CallRemoveConsecutiveDuplicates ==
    /\ duplicates_pc = "called"
    /\ filtered' = remove_consecutive_duplicates_gcode(duplicate_lines)
    /\ duplicates_pc' = "returned"
    /\ UNCHANGED <<rewriter_inputs, widget, locals, segment_call, arc_call, gcode_parse,
                   smoothing, center_call, generate_call, map_parse, duplicate_lines,
                   sampler_call, serial, mesh_call, designer>>

NextDuplicates == CallRemoveConsecutiveDuplicates

SpecDuplicates == InitDuplicates /\ [][NextDuplicates]_vars

\* ------------------------------------------- apply_center_offset on its own
CenterLines ==
    { Line("G0", <<Word("X", 0), Word("Y", 0)>>),
      Line("G1", <<Word("X", Mm(10)), Word("Y", Mm(4)), Word("F", Mm(100))>>),
      Line("G3", <<Word("X", Mm(14)), Word("Y", Mm(2)), Word("I", Mm(-5)), Word("J", 0)>>),
      Line("M3", <<Word("S", Mm(1000))>>) }

InitCenter ==
    /\ NoRewriter
    /\ IdleExcept("center")
    /\ center_lines \in Programs(CenterLines)
    /\ transformed_lines = <<>>
    /\ center_pc = "called"

\* self.apply_center_offset(lines) with the anchor the radio buttons hold
CallApplyCenterOffset ==
    /\ center_pc = "called"
    /\ transformed_lines' = apply_center_offset(center_lines, center_choice)
    /\ center_pc' = "returned"
    /\ UNCHANGED <<rewriter_inputs, widget, locals, segment_call, arc_call, gcode_parse,
                   smoothing, duplicates_call, generate_call, map_parse, center_lines,
                   sampler_call, serial, mesh_call, designer>>

NextCenter ==
    \/ radio_button_changed
    \/ CallApplyCenterOffset

SpecCenter == InitCenter /\ [][NextCenter]_vars

\* ------------------- generate_gcode_line and parse_coordinates on their own
\* the entries a coords dict may have for a key: no entry, None, or a number
NoEntry == [k \in {} |-> None]

Entries(k, values) == {NoEntry, k :> None} \cup {k :> Some(v) : v \in values}

\* 1.2345; -0.5; 0; 100.0749 and 100.0449; 500.9999 and -1.5; 5
CoordsDrawn ==
    { x @@ y @@ z @@ f @@ sp @@ i :
        x \in Entries("X", {12345}), y \in Entries("Y", {-5000}),
        z \in Entries("Z", {0}), f \in Entries("F", {1000749, 1000449}),
        sp \in Entries("S", {5009999, -15000}), i \in Entries("I", {Mm(5)}) }

InitGenerate ==
    /\ NoRewriter
    /\ IdleExcept("generate")
    /\ line_coords \in CoordsDrawn
    /\ line_command \in {"G0", "G1"}
    /\ generated_line = None
    /\ parsed_coords = <<>>
    /\ regenerated_line = None
    /\ generate_pc = "called"

CallGenerateGcodeLine ==
    /\ generate_pc = "called"
    /\ generated_line' = Some(generate_gcode_line(line_coords, line_command))
    /\ generate_pc' = "generated"
    /\ UNCHANGED <<rewriter_inputs, widget, locals, segment_call, arc_call, gcode_parse,
                   smoothing, duplicates_call, center_call, map_parse, line_coords,
                   line_command,
                   parsed_coords, regenerated_line, sampler_call, serial, mesh_call, designer>>

CallParseCoordinates ==
    /\ generate_pc = "generated"
    /\ parsed_coords' = parse_coordinates(Val(generated_line))
    /\ generate_pc' = "parsed"
    /\ UNCHANGED <<rewriter_inputs, widget, locals, segment_call, arc_call, gcode_parse,
                   smoothing, duplicates_call, center_call, map_parse, line_coords,
                   line_command,
                   generated_line, regenerated_line, sampler_call, serial, mesh_call,
                   designer>>

CallGenerateAgain ==
    /\ generate_pc = "parsed"
    /\ regenerated_line' = Some(generate_gcode_line(parsed_coords, line_command))
    /\ generate_pc' = "regenerated"
    /\ UNCHANGED <<rewriter_inputs, widget, locals, segment_call, arc_call, gcode_parse,
                   smoothing, duplicates_call, center_call, map_parse, line_coords,
                   line_command,
                   generated_line, parsed_coords, sampler_call, serial, mesh_call, designer>>

NextGenerate ==
    \/ CallGenerateGcodeLine
    \/ CallParseCoordinates
    \/ CallGenerateAgain

SpecGenerate == InitGenerate /\ [][NextGenerate]_vars

\* ------------------------------------------- parse_height_map_file on its own
\* readings 1.0 and 2.5
MapFileLines == {HeaderLine, NumberLine(Mm(1)), NumberLine(25000), BlankLine, TextLine}

\* a grid that an earlier load_data has left in the widget
LoadedBefore == << <<Some(0), Some(0)>>, <<Some(0), Some(Mm(1))>> >>

InitMapFile ==
    /\ NoRewriter
    /\ IdleExcept("height_map_file")
    /\ map_lines \in UNION {[1..n -> MapFileLines] : n \in 0..MaxFileLines}
    /\ map_no = 1
    /\ sections = <<>>
    /\ current_section = None
    /\ map_grid = <<>>
    /\ map_pc = "lines"
    /\ \/ self_height_map = None /\ saveButton = FALSE /\ smoothButton = FALSE
       \/ self_height_map = Some(LoadedBefore) /\ saveButton = TRUE /\ smoothButton = TRUE
    /\ load_failed = FALSE

\* the loop body with a line that is not a number closing the section
parse_height_map_file_line_text_closes ==
    /\ map_pc = "lines"
    /\ map_no <= Len(map_lines)
    /\ LET line == map_lines[map_no]
       IN  IF IsHeader(line) \/ (current_section # None /\ NonEmpty(line) /\ ~ParsesAsFloat(line))
           THEN /\ sections' = IF current_section # None
                               THEN Append(sections, Val(current_section))
                               ELSE sections
                /\ current_section' = Some(<<>>)
           ELSE IF current_section # None /\ NonEmpty(line)
           THEN /\ current_section' = Some(Append(Val(current_section), Val(line.v)))
                /\ UNCHANGED sections
           ELSE UNCHANGED <<sections, current_section>>
    /\ map_no' = map_no + 1
    /\ UNCHANGED <<rewriter_inputs, widget, locals, segment_call, arc_call, gcode_parse,
                   smoothing, duplicates_call, center_call, generate_call, map_lines,
                   map_grid, map_pc, self_height_map, saveButton, smoothButton, load_failed,
                   sampler_call, serial, mesh_call, designer>>

\* lines 121-131: one turn of `for line in lines`
parse_height_map_file_line ==
    /\ map_pc = "lines"
    /\ map_no <= Len(map_lines)
    /\ LET line == map_lines[map_no]
       IN  IF IsHeader(line)
           THEN /\ sections' = IF current_section # None
                               THEN Append(sections, Val(current_section))
                               ELSE sections
                /\ current_section' = Some(<<>>)
           ELSE IF current_section # None /\ NonEmpty(line) /\ ParsesAsFloat(line)
           THEN /\ current_section' = Some(Append(Val(current_section), Val(line.v)))
                /\ UNCHANGED sections
           ELSE UNCHANGED <<sections, current_section>>
    /\ map_no' = map_no + 1
    /\ UNCHANGED <<rewriter_inputs, widget, locals, segment_call, arc_call, gcode_parse,
                   smoothing, duplicates_call, center_call, generate_call, map_lines,
                   map_grid, map_pc, self_height_map, saveButton, smoothButton, load_failed,
                   sampler_call, serial, mesh_call, designer>>

\* lines 132-138: the last section is appended and the array is built;
\* max() of no sections raises ValueError
parse_height_map_file_return ==
    /\ map_pc = "lines"
    /\ map_no > Len(map_lines)
    /\ sections' = IF current_section # None
                   THEN Append(sections, Val(current_section))
                   ELSE sections
    /\ IF sections' = <<>>
       THEN map_pc' = "raised" /\ UNCHANGED map_grid
       ELSE map_pc' = "returned" /\ map_grid' = full_grid(sections')
    /\ UNCHANGED <<rewriter_inputs, widget, locals, segment_call, arc_call, gcode_parse,
                   smoothing, duplicates_call, center_call, generate_call, map_lines,
                   map_no, current_section, self_height_map, saveButton, smoothButton,
                   load_failed, sampler_call, serial, mesh_call, designer>>

\* load_data disabling the buttons and dropping the grid when loading fails
load_data_return_reset ==
    /\ map_pc \in {"returned", "raised"}
    /\ IF map_pc = "raised" \/ update_view_raises(map_grid)
       THEN /\ self_height_map' = None
            /\ saveButton' = FALSE
            /\ smoothButton' = FALSE
            /\ load_failed' = TRUE
            /\ map_pc' = "failed"
       ELSE /\ self_height_map' = Some(map_grid)
            /\ saveButton' = TRUE
            /\ smoothButton' = TRUE
            /\ map_pc' = "loaded"
            /\ UNCHANGED load_failed
    /\ UNCHANGED <<rewriter_inputs, widget, locals, segment_call, arc_call, gcode_parse,
                   smoothing, duplicates_call, center_call, generate_call, map_lines,
                   map_no, sections, current_section, map_grid, sampler_call, serial,
                   mesh_call, designer>>

\* lines 1027-1033 of load_data: the grid is assigned, the view is updated and
\* the buttons are enabled; any exception ends in the message box
load_data_return ==
    /\ map_pc \in {"returned", "raised"}
    /\ IF map_pc = "raised"
       THEN /\ load_failed' = TRUE
            /\ map_pc' = "failed"
            /\ UNCHANGED <<self_height_map, saveButton, smoothButton>>
       ELSE /\ self_height_map' = Some(map_grid)
            /\ IF update_view_raises(map_grid)
               THEN /\ load_failed' = TRUE
                    /\ map_pc' = "failed"
                    /\ UNCHANGED <<saveButton, smoothButton>>
               ELSE /\ saveButton' = TRUE
                    /\ smoothButton' = TRUE
                    /\ map_pc' = "loaded"
                    /\ UNCHANGED load_failed
    /\ UNCHANGED <<rewriter_inputs, widget, locals, segment_call, arc_call, gcode_parse,
                   smoothing, duplicates_call, center_call, generate_call, map_lines,
                   map_no, sections, current_section, map_grid, sampler_call, serial,
                   mesh_call, designer>>

NextMapFile ==
    \/ parse_height_map_file_line
    \/ parse_height_map_file_return
    \/ load_data_return

SpecMapFile == InitMapFile /\ [][NextMapFile]_vars

\* ------------------------------------------- get_z_height_from_stl on its own
\* StepMesh with its two triangles in the other order
StepMeshReversed == << StepMesh[2], StepMesh[1] >>

\* x = 5.5 is as far from the centroid of one triangle of StepMesh (x = 1) as
\* from the centroid of the other (x = 10); a coordinate is None when the
\* word of the line did not parse
InitSampler ==
    /\ NoRewriter
    /\ IdleExcept("sampler")
    /\ sample_mesh \in {None, Some(FlatMesh), Some(StepMesh), Some(StepMeshReversed)}
    /\ sample_x \in {None, Some(0), Some(55000), Some(Mm(10))}
    /\ sample_y \in {None, Some(0), Some(Mm(1)), Some(Mm(-4))}
    /\ sample_z = None
    /\ sample_pc = "called"

CallGetZHeight ==
    /\ sample_pc = "called"
    /\ sample_z' = get_z_height_from_stl(sample_mesh, sample_x, sample_y)
    /\ sample_pc' = "returned"
    /\ UNCHANGED <<rewriter_inputs, widget, locals, segment_call, arc_call, gcode_parse,
                   smoothing, duplicates_call, center_call, generate_call, map_parse,
                   sample_mesh, sample_x, sample_y, serial, mesh_call, designer>>

NextSampler == CallGetZHeight

SpecSampler == InitSampler /\ [][NextSampler]_vars

\* ------------------------------------------------------- the serial monitor
\* `time.time() - last_data_time > 0.5`, time counted in quarters of a second
GapQuarters == 2

\* settings.get("zero_point", 8150)
zero_point == 8150

\* a line such as "\u00b2" (superscript two): isdigit() is true of it and
\* int() raises ValueError
NotDecimal == -1

\* a line received: Some(n) for the digits of n, None for any other text
PortLines == {Some(8150), Some(8250), Some(NotDecimal), None}

\* f"{height_mm:.2f}" for height_mm = (sensor_value - zero_point) * 0.01
height_mm(sensor_value) == (sensor_value - zero_point) * (Scale \div 100)

OutsideSerial == <<rewriter_inputs, widget, locals, segment_call, arc_call, gcode_parse,
                   smoothing, duplicates_call, center_call, generate_call, sampler_call,
                   mesh_call, designer>>

InitSerial ==
    /\ NoRewriter
    /\ IdleExcept("serial")
    /\ NoSerial

\* lines 1180-1189
start_serial_read ==
    /\ reader_pc = "idle"
    /\ serial_is_open' = TRUE
    /\ reader_pc' = "start"
    /\ UNCHANGED <<OutsideSerial, map_parse, port_buffer, arrived, data_file, flushed,
                   file_state, section_counter, is_reading, elapsed, written_at_stop>>

\* lines 1221-1227: the user interface thread closes the connection
stop_serial_read ==
    /\ reader_pc # "idle"
    /\ serial_is_open
    /\ serial_is_open' = FALSE
    /\ written_at_stop' = Some(data_file)
    /\ UNCHANGED <<OutsideSerial, map_parse, port_buffer, arrived, reader_pc, data_file,
                   flushed, file_state, section_counter, is_reading, elapsed>>

\* a line reaches the port
Arrive ==
    /\ serial_is_open
    /\ arrived < MaxReadings
    /\ \E raw_line \in PortLines : port_buffer' = Append(port_buffer, raw_line)
    /\ arrived' = arrived + 1
    /\ UNCHANGED <<OutsideSerial, map_parse, serial_is_open, reader_pc, data_file, flushed,
                   file_state, section_counter, is_reading, elapsed, written_at_stop>>

\* a quarter of a second passes
Tick ==
    /\ reader_pc \notin {"idle", "start", "done"}
    /\ elapsed <= GapQuarters
    /\ elapsed' = elapsed + 1
    /\ UNCHANGED <<OutsideSerial, map_parse, serial_is_open, port_buffer, arrived, reader_pc,
                   data_file, flushed, file_state, section_counter, is_reading,
                   written_at_stop>>

\* lines 1193-1198: the file is opened and the first header written
read_serial_data_open ==
    /\ reader_pc = "start"
    /\ section_counter' = 1
    /\ elapsed' = 0
    /\ is_reading' = FALSE
    /\ file_state' = "open"
    /\ data_file' = << SectionLine(1) >>
    /\ flushed' = 0
    /\ reader_pc' = "while"
    /\ UNCHANGED <<OutsideSerial, map_parse, serial_is_open, port_buffer, arrived,
                   written_at_stop>>

\* leaving the `with` block, by the end of the loop or by an exception,
\* closes the file; closing writes what was buffered
LeaveWith ==
    /\ file_state' = "closed"
    /\ flushed' = Len(data_file)
    /\ reader_pc' = "done"

\* line 1199: `while self.serial_connection.is_open`
read_serial_data_while ==
    /\ reader_pc = "while"
    /\ IF serial_is_open
       THEN reader_pc' = "in_waiting" /\ UNCHANGED <<file_state, flushed>>
       ELSE LeaveWith
    /\ UNCHANGED <<OutsideSerial, map_parse, serial_is_open, port_buffer, arrived, data_file,
                   section_counter, is_reading, elapsed, written_at_stop>>

\* line 1200 with the exception of a closed port leaving the thread without
\* closing the file
read_serial_data_in_waiting_file_left_open ==
    /\ reader_pc = "in_waiting"
    /\ IF ~serial_is_open
       THEN reader_pc' = "done" /\ UNCHANGED <<file_state, flushed>>
       ELSE /\ reader_pc' = IF port_buffer # <<>> THEN "readline" ELSE "gap"
            /\ UNCHANGED <<file_state, flushed>>
    /\ UNCHANGED <<OutsideSerial, map_parse, serial_is_open, port_buffer, arrived, data_file,
                   section_counter, is_reading, elapsed, written_at_stop>>

\* line 1200: `self.serial_connection.in_waiting > 0`; on a closed port the
\* property raises, which ends in the handler of line 1218
read_serial_data_in_waiting ==
    /\ reader_pc = "in_waiting"
    /\ IF ~serial_is_open
       THEN LeaveWith
       ELSE /\ reader_pc' = IF port_buffer # <<>> THEN "readline" ELSE "gap"
            /\ UNCHANGED <<file_state, flushed>>
    /\ UNCHANGED <<OutsideSerial, map_parse, serial_is_open, port_buffer, arrived, data_file,
                   section_counter, is_reading, elapsed, written_at_stop>>

\* lines 1201-1211: a line is read; a line of digits is written and flushed;
\* an exception (the port closed meanwhile, int() failing) ends the thread
read_serial_data_readline ==
    /\ reader_pc = "readline"
    /\ IF ~serial_is_open
       THEN /\ LeaveWith
            /\ UNCHANGED <<port_buffer, data_file, is_reading, elapsed>>
       ELSE /\ port_buffer' = Tail(port_buffer)
            /\ IF Head(port_buffer) = Some(NotDecimal)
               THEN /\ LeaveWith
                    /\ UNCHANGED <<data_file, is_reading, elapsed>>
               ELSE /\ IF Head(port_buffer) # None
                       THEN /\ data_file' = Append(data_file,
                                                   NumberLine(height_mm(Val(Head(port_buffer)))))
                            /\ flushed' = Len(data_file')
                            /\ elapsed' = 0
                            /\ is_reading' = TRUE
                       ELSE UNCHANGED <<data_file, flushed, elapsed, is_reading>>
                    /\ reader_pc' = "gap"
                    /\ UNCHANGED file_state
    /\ UNCHANGED <<OutsideSerial, map_parse, serial_is_open, arrived, section_counter,
                   written_at_stop>>

\* the test of line 1212 without is_reading
read_serial_data_gap_any_silence ==
    /\ reader_pc = "gap"
    /\ IF elapsed > GapQuarters
       THEN /\ section_counter' = section_counter + 1
            /\ data_file' = data_file \o << BlankLine, SectionLine(section_counter') >>
            /\ flushed' = Len(data_file')
            /\ is_reading' = FALSE
       ELSE UNCHANGED <<section_counter, data_file, flushed, is_reading>>
    /\ reader_pc' = "while"
    /\ UNCHANGED <<OutsideSerial, map_parse, serial_is_open, port_buffer, arrived, file_state,
                   elapsed, written_at_stop>>

\* lines 1212-1217: a new section after half a second without a reading
read_serial_data_gap ==
    /\ reader_pc = "gap"
    /\ IF is_reading /\ elapsed > GapQuarters
       THEN /\ section_counter' = section_counter + 1
            /\ data_file' = data_file \o << BlankLine, SectionLine(section_counter') >>
            /\ flushed' = Len(data_file')
            /\ is_reading' = FALSE
       ELSE UNCHANGED <<section_counter, data_file, flushed, is_reading>>
    /\ reader_pc' = "while"
    /\ UNCHANGED <<OutsideSerial, map_parse, serial_is_open, port_buffer, arrived, file_state,
                   elapsed, written_at_stop>>

\* the steps of the thread started by start_serial_read
read_serial_data ==
    \/ read_serial_data_open
    \/ read_serial_data_while
    \/ read_serial_data_in_waiting
    \/ read_serial_data_readline
    \/ read_serial_data_gap

NextSerial ==
    \/ start_serial_read
    \/ stop_serial_read
    \/ Arrive
    \/ Tick
    \/ read_serial_data_open
    \/ read_serial_data_while
    \/ read_serial_data_in_waiting
    \/ read_serial_data_readline
    \/ read_serial_data_gap

SpecSerial == InitSerial /\ [][NextSerial]_vars

\* the thread, once started, is scheduled until it returns
SpecSerialFair == SpecSerial /\ WF_vars(read_serial_data)

\* load_data on the file the monitor has written (lines 1024-1028, 117-120)
load_data_written_file ==
    /\ reader_pc = "done"
    /\ map_pc = "idle"
    /\ map_lines' = data_file
    /\ map_pc' = "lines"
    /\ UNCHANGED <<OutsideSerial, serial, map_no, sections, current_section, map_grid,
                   self_height_map, saveButton, smoothButton, load_failed>>

NextSerialFile ==
    \/ NextSerial
    \/ load_data_written_file
    \/ parse_height_map_file_line
    \/ parse_height_map_file_return
    \/ load_data_return

SpecSerialFile == InitSerial /\ [][NextSerialFile]_vars

\* ------------------------- create_stl_mesh_from_height_map on its own
\* a row as parse_height_map_file builds it: n readings, then NaN
PaddedRow(n, width) ==
    [i \in 1..width |-> IF i <= n THEN Some(i * (Scale \div 10)) ELSE NaN]

\* the grids of 2..MaxGridSide rows and columns with at least one full row
PaddedGrids ==
    UNION { { g \in [1..rows -> {PaddedRow(n, width) : n \in 0..width}] :
                  \E j \in 1..rows : g[j][width] # NaN } :
            rows \in 2..MaxGridSide, width \in 2..MaxGridSide }

InitMesh ==
    /\ NoRewriter
    /\ IdleExcept("mesh")
    /\ mesh_height_map \in PaddedGrids
    /\ vertices = <<>>
    /\ faces = <<>>
    /\ mesh_pc = "called"

\* lines 1066-1097; vertices and faces are the lists built before line 1093
CallCreateStlMesh ==
    /\ mesh_pc = "called"
    /\ vertices' = mesh_vertices(mesh_height_map)
    /\ faces' = mesh_faces(mesh_height_map)
    /\ mesh_pc' = IF mesh_raises(mesh_height_map) THEN "raised" ELSE "returned"
    /\ UNCHANGED <<rewriter_inputs, widget, locals, segment_call, arc_call, gcode_parse,
                   smoothing, duplicates_call, center_call, generate_call, map_parse,
                   sampler_call, serial, designer, mesh_height_map>>

NextMesh == CallCreateStlMesh

SpecMesh == InitMesh /\ [][NextMesh]_vars

\* ------------------------- the necklace designer: undo and redo
\* (laser_necklace_Version47.py). A letter item is its position << x, y >>.
MaxLetters == 2
letter_adjustment_step == Mm(5)
\* fm.horizontalAdvance(letter): one width for every letter
Advance == Mm(10)
\* the moves stay within this distance of the centre line
MaxX == Mm(5)

OutsideDesigner == <<rewriter_inputs, widget, locals, segment_call, arc_call, gcode_parse,
                     smoothing, duplicates_call, center_call, generate_call, map_parse,
                     sampler_call, serial, mesh_call>>

\* for item, pos in zip(self.letter_items, state): item.setPos(pos)
SetPositions(items, state) ==
    [k \in 1..Len(items) |-> IF k <= Len(state) THEN state[k] ELSE items[k]]

\* lines 545-548: item.setPos(item.pos() + QPointF(dx, dy)) for the selected items
move_selected_letter(items, selected, dx, dy) ==
    [k \in 1..Len(items) |->
        IF k \in selected THEN << items[k][1] + dx, items[k][2] + dy >> ELSE items[k]]

InitDesigner ==
    /\ NoRewriter
    /\ IdleExcept("designer")
    /\ letter_items = <<>>
    /\ undo_stack = <<>>
    /\ redo_stack = <<>>
    /\ last_call = "none"
    /\ before_undo = None

\* lines 505-543: the text, the font or the size changed; the letters are
\* laid out again from -total_width / 2, n is the length of the new text
rebuild_letters ==
    \E n \in 0..MaxLetters :
        /\ letter_items' = [k \in 1..n |-> << (k - 1) * Advance - (n * Advance) \div 2, 0 >>]
        /\ last_call' = "rebuild_letters"
        /\ before_undo' = None
        /\ UNCHANGED <<OutsideDesigner, undo_stack, redo_stack>>

\* lines 457-460 with 686-689 and 545-549: an arrow button of the letter group
move_callback ==
    \E selected \in SUBSET (1..Len(letter_items)), dx \in {letter_adjustment_step, -letter_adjustment_step} :
        /\ Len(undo_stack) < MaxUndo
        /\ \A k \in selected : Abs(letter_items[k][1] + dx) <= MaxX
        /\ undo_stack' = Append(undo_stack, letter_items)
        /\ redo_stack' = <<>>
        /\ letter_items' = move_selected_letter(letter_items, selected, dx, 0)
        /\ last_call' = "move_callback"
        /\ before_undo' = None
        /\ UNCHANGED OutsideDesigner

\* lines 418-444: the keys A and D move the selected letters, nothing is pushed
keyPressEvent_move ==
    \E selected \in SUBSET (1..Len(letter_items)), dx \in {letter_adjustment_step, -letter_adjustment_step} :
        /\ selected # {}
        /\ \A k \in selected : Abs(letter_items[k][1] + dx) <= MaxX
        /\ letter_items' = move_selected_letter(letter_items, selected, dx, 0)
        /\ last_call' = "keyPressEvent"
        /\ before_undo' = None
        /\ UNCHANGED <<OutsideDesigner, undo_stack, redo_stack>>

\* lines 691-699; before_undo records the state in which undo() was called
undo ==
    /\ last_call' = "undo"
    /\ IF undo_stack = <<>>
       THEN /\ before_undo' = None
            /\ UNCHANGED <<letter_items, undo_stack, redo_stack>>
       ELSE /\ before_undo' = Some(<<letter_items, undo_stack, redo_stack>>)
            /\ redo_stack' = Append(redo_stack, letter_items)
            /\ undo_stack' = SubSeq(undo_stack, 1, Len(undo_stack) - 1)
            /\ letter_items' = SetPositions(letter_items, undo_stack[Len(undo_stack)])
    /\ UNCHANGED OutsideDesigner

\* lines 701-709
redo ==
    /\ last_call' = "redo"
    /\ IF redo_stack = <<>>
       THEN /\ before_undo' = None
            /\ UNCHANGED <<letter_items, undo_stack, redo_stack>>
       ELSE /\ before_undo' = IF last_call = "undo" THEN before_undo ELSE None
            /\ undo_stack' = Append(undo_stack, letter_items)
            /\ redo_stack' = SubSeq(redo_stack, 1, Len(redo_stack) - 1)
            /\ letter_items' = SetPositions(letter_items, redo_stack[Len(redo_stack)])
    /\ UNCHANGED OutsideDesigner

NextDesigner ==
    \/ rebuild_letters
    \/ move_callback
    \/ keyPressEvent_move
    \/ undo
    \/ redo

SpecDesigner == InitDesigner /\ [][NextDesigner]_vars

\* =================================================================== claims
\* the line the outer loop of modify_gcode is about to process
AtLine == pc = "lines" /\ line_no <= Len(gcode_lines)

\* the point the inner loop of modify_gcode is about to process
AtPoint == pc = "points" /\ pt_no <= Len(points)

PointHeight == get_z_height_from_stl(stl_mesh, points[pt_no]["X"], points[pt_no]["Y"])

WordOf(line, l) == Get(parse_coordinates(line), l)

LastOf(lines) == lines[Len(lines)]

TwoLineProgram ==
    << Line("G0", <<Word("X", 0), Word("Y", 0), Word("Z", Mm(1))>>),
       Line("G1", <<Word("X", Mm(10)), Word("Y", 0), Word("Z", 0), Word("F", Mm(100))>>) >>

CutLines == {n \in DOMAIN new_lines : new_lines[n].cmd = "G1"}

\* C1: modify_gcode on 'G0 X0 Y0 Z1' / 'G1 X10 Y0 Z0 F100' over a surface of
\* constant height 5 returns cut lines whose first has Z = 5 and whose last
\* (the last interpolated point of the G1) has Z = 5 - 0 = 5.
C1_FirstContactAtSurface ==
    (pc = "idle" /\ status = "generated" /\ gcode_lines = TwoLineProgram
        /\ stl_mesh = Some(FlatMesh))
    => /\ CutLines # {}
       /\ WordOf(new_lines[SetMin(CutLines)], "Z") = Some(Mm(5))
       /\ WordOf(new_lines[SetMax(CutLines)], "Z") = Some(Mm(5))

\* C2: only the first interpolated point of the first interpolated command
\* is given Z = sampled height; every other interpolated point, the later
\* points of that first command included, is given Z = sampled height -
\* |interpolated Z|.
C2_OnlyFirstPointAbsolute ==
    [][ (AtPoint /\ PointHeight # None)
        => /\ Len(new_lines') = Len(new_lines) + 1
           /\ WordOf(LastOf(new_lines'), "Z") =
                 IF first_cut /\ pt_no = 1
                 THEN PointHeight
                 ELSE Some(Val(PointHeight) - Abs(Val(points[pt_no]["Z"]))) ]_vars

\* the X or Y a rapid move goes to: the axis as given on the line, else the
\* axis of the last known position
RapidTarget(line, k) ==
    IF IsNum(parse_coordinates(line), k) THEN parse_coordinates(line)[k]
    ELSE Val(last_xy)[k]

RapidTargetKnown(line) ==
    /\ \A i \in DOMAIN line.words : line.words[i].l \in {"X", "Y"} => line.words[i].v # None
    /\ (HasLetter(line, "X") /\ HasLetter(line, "Y")) \/ last_xy # None

RapidTargetHeight(line) ==
    get_z_height_from_stl(stl_mesh, RapidTarget(line, "X"), RapidTarget(line, "Y"))

\* C3: a G0 line with an explicit Z is output as the same G0 line with only
\* its Z word replaced by original Z + the height sampled at the target
\* (X, Y), an axis given on the line taken as given and an omitted axis
\* carried forward.
C3_RapidAddsSurfaceHeight ==
    [][ (/\ AtLine
         /\ gcode_lines[line_no].cmd = "G0"
         /\ HasZNumber(gcode_lines[line_no])
         /\ RapidTargetKnown(gcode_lines[line_no])
         /\ RapidTargetHeight(gcode_lines[line_no]) # None)
        => new_lines' = Append(new_lines,
                               SubZ(gcode_lines[line_no],
                                    ZMatch(gcode_lines[line_no])
                                      + Val(RapidTargetHeight(gcode_lines[line_no])))) ]_vars

RapidHeightAbsent ==
    /\ AtLine
    /\ StartsWith(gcode_lines[line_no], "G0")
    /\ HasZNumber(gcode_lines[line_no])
    /\ (HasLetter(gcode_lines[line_no], "X") /\ HasLetter(gcode_lines[line_no], "Y"))
          \/ last_xy # None
    /\ RapidSample(gcode_lines[line_no]) = None

\* C4: when get_z_height_from_stl returns None for a point, the pass stops
\* with an error and no line is output for that point.
C4_AbortWithoutSurfaceData ==
    [][ (RapidHeightAbsent \/ (AtPoint /\ PointHeight = None))
        => (new_lines' = new_lines /\ pc' = "idle" /\ status' = "error") ]_vars

MotionCommands == {"G0", "G1", "G2", "G3"}

\* C5: a line that is not a G0, G1, G2 or G3 command is appended to the
\* output as it is, and is not interpolated.
C5_NonMotionVerbatim ==
    [][ (AtLine /\ gcode_lines[line_no].cmd \notin MotionCommands)
        => (new_lines' = Append(new_lines, gcode_lines[line_no]) /\ pc' = "lines") ]_vars

PositionEstablished == ~PositionKeyError /\ ~NoCurrentPosition

\* C6: once a current X/Y position is established, every G1, G2 and G3
\* command is expanded into interpolation_steps+1 (linear) or arc_steps+1
\* (arc) points, and each point is output as a G1 line at the point's X, Y
\* whose Z comes from the height sampled there.
C6_CutsAreConformed ==
    [][ /\ (AtLine /\ gcode_lines[line_no].cmd \in {"G1", "G2", "G3"} /\ PositionEstablished)
           => /\ pc' = "points"
              /\ Len(points') = 1 + (IF gcode_lines[line_no].cmd = "G1"
                                      THEN interpolation_steps ELSE arc_steps)
        /\ (AtPoint /\ PointHeight # None)
           => /\ Len(new_lines') = Len(new_lines) + 1
              /\ LastOf(new_lines').cmd = "G1"
              /\ WordOf(LastOf(new_lines'), "X") = points[pt_no]["X"]
              /\ WordOf(LastOf(new_lines'), "Y") = points[pt_no]["Y"]
              /\ WordOf(LastOf(new_lines'), "Z") \in
                    {PointHeight, Some(Val(PointHeight) - Abs(Val(points[pt_no]["Z"])))} ]_vars

\* the input lines the output produced so far comes from
LinesRead == {n \in DOMAIN gcode_lines : n <= line_no}

\* C7: an output line has an F word only if an input line at or before its
\* command has one; no F word is made up for a program without F.
C7_NoFabricatedFeed ==
    \A m \in DOMAIN new_lines :
        HasLetter(new_lines[m], "F") => \E n \in LinesRead : HasLetter(gcode_lines[n], "F")

\* C8: the output lines generated for a G1 or G2 line that gives S carry
\* that S value.
C8_SpindlePreserved ==
    [][ (/\ pc \in {"lines", "points"}
         /\ line_no <= Len(gcode_lines)
         /\ gcode_lines[line_no].cmd \in {"G1", "G2"}
         /\ IsNum(parse_coordinates(gcode_lines[line_no]), "S")
         /\ Len(new_lines') > Len(new_lines))
        => WordOf(LastOf(new_lines'), "S") = WordOf(gcode_lines[line_no], "S") ]_vars

\* C9: once a rewrite pass has been started, and after any rewrite, offset,
\* centring and duplicate-removal operations that follow, gcode_lines is
\* still what load_gcode read from the file; the results are in
\* modified_gcode.
C9_OriginalKept ==
    (pc # "idle" \/ new_lines # <<>> \/ modified_gcode # <<>>) => gcode_lines = file

\* a rewrite with a non-zero offset, a centre transformation and a duplicate
\* removal have produced an output that differs from the loaded lines
C9_Witness ==
    /\ pc = "idle"
    /\ status = "deduplicated"
    /\ edits > 0
    /\ offset_input # <<0, 0, 0>>
    /\ modified_gcode # <<>>
    /\ modified_gcode # gcode_lines
    /\ gcode_lines = file

SegmentAxes == {"X", "Y", "Z"}

\* C10: interpolate_segment(start, end, N) returns N+1 points; point i is
\* start + (end - start) * i / N on each of X, Y, Z (to the nearest unit),
\* point 0 is start and point N is end, (0,0,0)->(10,0,5) with N = 10 has
\* point 5 at (5, 0, 2.5), and every point has the end point's F.
C10_SegmentPoints ==
    seg_points # <<>> =>
        /\ Len(seg_points) = seg_steps + 1
        /\ \A i \in 0..seg_steps : \A k \in SegmentAxes :
               /\ 2 * Abs(seg_steps * (Val(seg_points[i + 1][k]) - Val(seg_start[k]))
                          - (Val(seg_end[k]) - Val(seg_start[k])) * i) <= seg_steps
               /\ seg_points[i + 1]["F"] = seg_end["F"]
        /\ \A k \in SegmentAxes :
               /\ seg_points[1][k] = seg_start[k]
               /\ seg_points[seg_steps + 1][k] = seg_end[k]
        /\ (/\ seg_steps = 10
            /\ \A k \in SegmentAxes : seg_start[k] = Some(0)
            /\ seg_end["X"] = Some(Mm(10)) /\ seg_end["Y"] = Some(0)
            /\ seg_end["Z"] = Some(Mm(5)))
           => /\ seg_points[6]["X"] = Some(Mm(5))
              /\ seg_points[6]["Y"] = Some(0)
              /\ seg_points[6]["Z"] = Some(25000)

\* the call (0,0,0) -> (10,0,5) with 10 steps, the two feeds different
C10_Witness ==
    /\ Len(seg_points) = 11
    /\ \A k \in SegmentAxes : seg_start[k] = Some(0)
    /\ seg_end["X"] = Some(Mm(10)) /\ seg_end["Y"] = Some(0) /\ seg_end["Z"] = Some(Mm(5))
    /\ seg_start["F"] # seg_end["F"]
    /\ seg_points[6]["Z"] = Some(25000)

NonDecreasing(seq) == \A i \in 1..(Len(seq) - 1) : seq[i] <= seq[i + 1]

NonIncreasing(seq) == \A i \in 1..(Len(seq) - 1) : seq[i] >= seq[i + 1]

\* C11: when interpolate_arc expands a clockwise (G2) arc, which is the only
\* arc the rewriter passes to it, end_angle is raised by a full turn when it
\* is below start_angle, so the angles of the generated points never decrease
\* and end at or above start_angle.
C11_ClockwiseAnglesRise ==
    (arc_theta # <<>> /\ arc_I # None /\ arc_J # None) =>
        /\ NonDecreasing(arc_theta)
        /\ arc_theta[Len(arc_theta)] >= arc_theta[1]
        /\ arc_theta[Len(arc_theta)] - arc_theta[1] < 360

\* the squared distance of a point from (cx, cy) is that of radius r, to
\* within one unit of r
AtRadius(pt, cx, cy, r) ==
    LET d2 == WideAdd(WideSq(Val(pt["X"]) - cx), WideSq(Val(pt["Y"]) - cy))
    IN  /\ r = 0 \/ WideLess(WideSq(r - 1), d2)
        /\ WideLess(d2, WideSq(r + 1))

FullCircleCall ==
    /\ arc_I = Some(Mm(10)) /\ arc_J = Some(0)
    /\ arc_start["X"] = Some(0) /\ arc_start["Y"] = Some(0)
    /\ arc_end["X"] = Some(0) /\ arc_end["Y"] = Some(0)

\* C12: interpolate_arc with I=10, J=0, start=(0,0), end=(0,0) returns
\* steps+1 points, all at distance 10 from the centre (10,0), whose angles
\* sweep one full turn from the first point to the last.
C12_FullCircleSwept ==
    (arc_points # <<>> /\ FullCircleCall) =>
        /\ Len(arc_points) = arc_count + 1
        /\ \A i \in DOMAIN arc_points : AtRadius(arc_points[i], Mm(10), 0, Mm(10))
        /\ Abs(arc_theta[Len(arc_theta)] - arc_theta[1]) = 360

\* C13: the points interpolate_arc returns for an arc with neither I nor J
\* end at the end coordinate (X, Y) of the command.
C13_NoCentreEndsAtEnd ==
    (arc_points # <<>> /\ arc_I = None /\ arc_J = None) =>
        /\ arc_points[Len(arc_points)]["X"] = arc_end["X"]
        /\ arc_points[Len(arc_points)]["Y"] = arc_end["Y"]

AtGcodeLine == gcode_pc = "lines" /\ gcode_no <= Len(gcode_file)

Occurrences(line, l) == {i \in DOMAIN line.words : line.words[i].l = l}

\* C14: for a line with a malformed numeric suffix parse_coordinates gives
\* that field as absent and the other fields their values, and parse_gcode
\* goes on to the next line with every line it reads, never raising.
C14_MalformedNumberTolerated ==
    [][ AtGcodeLine =>
          /\ \A l \in Letters : \A i \in Occurrences(gcode_file[gcode_no], l) :
                 Cardinality(Occurrences(gcode_file[gcode_no], l)) = 1
                 => parse_coordinates(gcode_file[gcode_no])[l]
                      = gcode_file[gcode_no].words[i].v
          /\ gcode_pc' = "lines"
          /\ gcode_no' = gcode_no + 1 ]_vars

\* no adjacent pair of non-NaN cells, in a row or in a column, differs by
\* more than the threshold
NoSteepPair(grid, limit) ==
    \A j \in DOMAIN grid : \A i \in DOMAIN grid[j] :
        /\ (i + 1 \in DOMAIN grid[j]) => ~Exceeds(grid[j][i], grid[j][i + 1], limit)
        /\ (j + 1 \in DOMAIN grid) => ~Exceeds(grid[j][i], grid[j + 1][i], limit)

\* C15: smooth_height_map returns, after at most max_iterations passes; on
\* return either the last pass adjusted nothing and no horizontally or
\* vertically adjacent pair of non-NaN cells differs by more than the
\* threshold, or exactly max_iterations passes were executed; with
\* max_iterations = 0 the grid is returned unchanged.
C15_SmoothStops ==
    /\ [](iteration <= max_iterations)
    /\ [](smooth_pc = "returned" =>
            \/ iteration > 0 /\ ~adjusted /\ NoSteepPair(height_map, threshold)
            \/ iteration = max_iterations)
    /\ []((smooth_pc = "returned" /\ max_iterations = 0) => height_map = height_map_in)
    /\ (smooth_pc = "loop" ~> smooth_pc = "returned")

\* a grid with a steep pair was smoothed and the loop stopped because a
\* later pass adjusted nothing
C15_Witness ==
    /\ smooth_pc = "returned"
    /\ ~NoSteepPair(height_map_in, threshold)
    /\ height_map # height_map_in
    /\ ~adjusted
    /\ iteration >= 2

\* the lines that do not repeat, after trimming, the line before them
FirstOfRun(ls) == {n \in DOMAIN ls : n = 1 \/ strip(ls[n]) # strip(ls[n - 1])}

\* the i-th smallest member of a set of numbers
Nth(S, i) == CHOOSE n \in S : Cardinality({m \in S : m <= n}) = i

\* C16: remove_consecutive_duplicates_gcode returns the first line of every
\* run of lines that are equal after trimming, in the order of the input:
\* no two consecutive output lines are equal after trimming, a repeat that is
\* not adjacent is kept, [] gives [] and ['G1 X0', 'G1 X0', 'G1 X1'] gives
\* ['G1 X0', 'G1 X1'].
C16_FirstOfEachRunKept ==
    duplicates_pc = "returned" =>
        /\ Len(filtered) = Cardinality(FirstOfRun(duplicate_lines))
        /\ \A i \in DOMAIN filtered : filtered[i] = duplicate_lines[Nth(FirstOfRun(duplicate_lines), i)]
        /\ \A i \in 1..(Len(filtered) - 1) : strip(filtered[i]) # strip(filtered[i + 1])
        /\ duplicate_lines = <<>> => filtered = <<>>
        /\ duplicate_lines = << Line("G1", <<Word("X", 0)>>), Line("G1", <<Word("X", 0)>>),
                      Line("G1", <<Word("X", Mm(1))>>) >>
           => filtered = << Line("G1", <<Word("X", 0)>>), Line("G1", <<Word("X", Mm(1))>>) >>

\* a line that differs from the one before it only in white space was
\* removed, and a repeat that is not adjacent was kept
C16_Witness ==
    /\ duplicates_pc = "returned"
    /\ \E n \in 2..Len(duplicate_lines) : duplicate_lines[n] # duplicate_lines[n - 1] /\ n \notin FirstOfRun(duplicate_lines)
    /\ Len(filtered) = 3
    /\ filtered[1] = filtered[3]

IsMotion(line) == line.cmd \in MotionCommands

\* the values of axis k on the motion commands
MotionValues(ls, k) ==
    {Val(parse_coordinates(ls[n])[k]) :
        n \in {m \in DOMAIN ls : IsMotion(ls[m]) /\ IsNum(parse_coordinates(ls[m]), k)}}

\* twice (anchor - centre) of the bounding box of the motion commands
MotionOffset2(ls, choice) ==
    << Desired2(choice, SetMin(MotionValues(ls, "X")), SetMax(MotionValues(ls, "X")),
                SetMin(MotionValues(ls, "Y")), SetMax(MotionValues(ls, "Y")))[1]
         - (SetMin(MotionValues(ls, "X")) + SetMax(MotionValues(ls, "X"))),
       Desired2(choice, SetMin(MotionValues(ls, "X")), SetMax(MotionValues(ls, "X")),
                SetMin(MotionValues(ls, "Y")), SetMax(MotionValues(ls, "Y")))[2]
         - (SetMin(MotionValues(ls, "Y")) + SetMax(MotionValues(ls, "Y"))) >>

\* axis k of line `new` is that of line `old` moved by off2 / 2, to the
\* nearest unit
Moved(old, new, k, off2) ==
    IsNum(parse_coordinates(old), k)
    => /\ IsNum(parse_coordinates(new), k)
       /\ Abs(2 * Val(parse_coordinates(new)[k]) - 2 * Val(parse_coordinates(old)[k]) - off2)
             <= 1

\* C17: apply_center_offset moves the X and the Y of every motion command
\* (G0, G1, G2, G3) by anchor - centre of the bounding box of the X/Y values
\* of all motion commands, for the anchor chosen, and leaves every other line
\* as it is; the width and the height of the bounding box stay the same.
C17_MotionCommandsTranslated ==
    [][ (/\ center_pc = "called" /\ center_pc' = "returned"
         /\ MotionValues(center_lines, "X") # {}
         /\ MotionValues(center_lines, "Y") # {})
        => /\ Len(transformed_lines') = Len(center_lines)
           /\ \A n \in DOMAIN center_lines :
                  IF IsMotion(center_lines[n])
                  THEN /\ Moved(center_lines[n], transformed_lines'[n], "X",
                                MotionOffset2(center_lines, center_choice)[1])
                       /\ Moved(center_lines[n], transformed_lines'[n], "Y",
                                MotionOffset2(center_lines, center_choice)[2])
                  ELSE transformed_lines'[n] = center_lines[n]
           /\ \A k \in {"X", "Y"} :
                  SetMax(MotionValues(transformed_lines', k))
                    - SetMin(MotionValues(transformed_lines', k))
                  = SetMax(MotionValues(center_lines, k))
                    - SetMin(MotionValues(center_lines, k)) ]_vars

OutputFields == <<"X", "Y", "Z", "F", "S">>

\* the place of a letter in the order of the output fields
Rank(l) == CHOOSE i \in DOMAIN OutputFields : OutputFields[i] = l

PresentFields(c) == {k \in {"X", "Y", "Z", "F", "S"} : IsNum(c, k)}

\* a word is the value v written by its letter's format: 4 decimals for X, Y
\* and Z, the nearest tenth for F, the integer part for S
WrittenAs(w, v) ==
    CASE w.l \in {"X", "Y", "Z"} -> w.t = "f4" /\ w.v = Some(v)
      [] w.l = "F" -> /\ w.t = "f1"
                      /\ Val(w.v) % (Scale \div 10) = 0
                      /\ 2 * Abs(Val(w.v) - v) <= Scale \div 10
      [] w.l = "S" -> /\ w.t = "d"
                      /\ Val(w.v) % Scale = 0
                      /\ Abs(Val(w.v)) <= Abs(v)
                      /\ Abs(v) - Abs(Val(w.v)) < Scale
                      /\ (Val(w.v) > 0 => v > 0) /\ (Val(w.v) < 0 => v < 0)

C19_RegeneratedLineEqual ==
    (/\ generate_pc = "regenerated"
     /\ line_command = "G1"
     /\ PresentFields(line_coords) = {"X", "Y", "Z", "F", "S"})
    => regenerated_line = generated_line

\* such a line was parsed and generated again, from values that differ from
\* those the line was first generated from
C19_Witness ==
    /\ generate_pc = "regenerated"
    /\ line_command = "G1"
    /\ PresentFields(line_coords) = {"X", "Y", "Z", "F", "S"}
    /\ parsed_coords["F"] # line_coords["F"]
    /\ parsed_coords["S"] # line_coords["S"]
    /\ Len(Val(regenerated_line).words) = 5

\* the indices of the header lines of a file
Headers(ls) == {n \in DOMAIN ls : ls[n].kind = "header"}

\* the index of the i-th header line
HeaderAt(ls, i) ==
    CHOOSE h \in Headers(ls) : Cardinality({k \in Headers(ls) : k <= h}) = i

IsReading(l) == l.kind = "number"

\* the readings of the i-th section: the numbers between its header and the
\* next header (or the end of the file), in file order
ReadingsOf(ls, i) ==
    LET last == IF i = Cardinality(Headers(ls)) THEN Len(ls) ELSE HeaderAt(ls, i + 1) - 1
        body == SelectSeq(SubSeq(ls, HeaderAt(ls, i) + 1, last), IsReading)
    IN  [k \in 1..Len(body) |-> body[k].v]

\* C20: the grid parse_height_map_file returns has one row per header line of
\* the file, in file order, every row as long as the longest section; row i is
\* the readings of section i in order, then NaN; lines before the first
\* header, blank lines and lines that are not numbers contribute nothing and
\* end no section.
C20_GridOfSections ==
    map_pc = "returned" =>
        LET count == Cardinality(Headers(map_lines))
        IN  /\ Len(map_grid) = count
            /\ \A i \in 1..count :
                   /\ Len(map_grid[i]) >= Len(ReadingsOf(map_lines, i))
                   /\ SubSeq(map_grid[i], 1, Len(ReadingsOf(map_lines, i)))
                          = ReadingsOf(map_lines, i)
                   /\ \A j \in DOMAIN map_grid[i] :
                          j > Len(ReadingsOf(map_lines, i)) => map_grid[i][j] = NaN
            /\ \A i \in 1..count :
                   /\ \A k \in 1..count : Len(map_grid[i]) >= Len(ReadingsOf(map_lines, k))
                   /\ \E k \in 1..count : Len(map_grid[i]) = Len(ReadingsOf(map_lines, k))

\* a grid was returned for a file that starts with a number before any
\* header, has a section in which a blank line and a text line come before a
\* number, and has a shorter section, padded with NaN
C20_Witness ==
    /\ map_pc = "returned"
    /\ map_lines[1].kind = "number"
    /\ Len(map_grid) >= 2
    /\ \E i \in DOMAIN map_grid : \E j \in DOMAIN map_grid[i] : map_grid[i][j] = NaN
    /\ \E h \in Headers(map_lines) : \E a, b, c \in DOMAIN map_lines :
           /\ h < a /\ h < b /\ a < c /\ b < c
           /\ map_lines[a].kind = "blank"
           /\ map_lines[b].kind = "text"
           /\ map_lines[c].kind = "number"
           /\ \A n \in h + 1..c : n \notin Headers(map_lines)

CentroidsOf(vectors) ==
    [n \in DOMAIN vectors |->
        [c \in 1..3 |-> RoundDiv(vectors[n][1][c] + vectors[n][2][c] + vectors[n][3][c], 3)]]

\* centroid n is at least as near to (x, y) as centroid k
AsNear(cs, n, k, x, y) ==
    ~WideLess(WideAdd(WideSq(cs[k][1] - x), WideSq(cs[k][2] - y)),
              WideAdd(WideSq(cs[n][1] - x), WideSq(cs[n][2] - y)))

\* C22: with a mesh of at least one face loaded, get_z_height_from_stl never
\* returns None: it returns the Z of the first centroid among those nearest,
\* in the plane, to the point asked for; it returns None only when no mesh is
\* loaded.
C22_NearestCentroidHeight ==
    sample_pc = "returned" =>
        /\ (sample_mesh # None /\ Val(sample_mesh) # <<>>) => sample_z # None
        /\ sample_z = None => sample_mesh = None
        /\ sample_z # None =>
               LET cs == CentroidsOf(Val(sample_mesh))
                   x == Val(sample_x)
                   y == Val(sample_y)
               IN  \E n \in DOMAIN cs :
                       /\ sample_z = Some(cs[n][3])
                       /\ \A k \in DOMAIN cs : AsNear(cs, n, k, x, y)
                       /\ \A k \in DOMAIN cs : k < n => ~AsNear(cs, k, n, x, y)

IsPrefix(a, b) == Len(a) <= Len(b) /\ SubSeq(b, 1, Len(a)) = a

\* C23: once stop_serial_read has closed the connection the reader thread
\* leaves its loop and closes the data file, wherever it was in the loop; the
\* lines written before the stop stay in the file, and closing leaves nothing
\* unwritten.
C23_ReaderStopsCleanly ==
    /\ (written_at_stop # None) ~> (reader_pc = "done" /\ file_state = "closed")
    /\ [](written_at_stop # None => IsPrefix(Val(written_at_stop), data_file))
    /\ [](reader_pc = "done" => file_state = "closed" /\ flushed = Len(data_file))

\* the connection was closed while the thread was past the test of its loop,
\* with a reading in the file, and the thread has ended
C23_Witness ==
    /\ reader_pc = "done"
    /\ file_state = "closed"
    /\ written_at_stop # None
    /\ \E n \in DOMAIN Val(written_at_stop) : Val(written_at_stop)[n].kind = "number"
    /\ port_buffer # <<>>

\* the places of the section headers of the file written
SectionsWritten(f) == {n \in DOMAIN f : f[n].kind = "section"}

\* C26: the reader writes a section header exactly when a reading was written
\* since the last header and more than half a second has passed since the last
\* reading, once for that gap; so no two headers of the file are without a
\* reading between them; and when the next line is read every reading written
\* is on the disk.
C26_OneHeaderPerGap ==
    /\ [][reader_pc = "gap" /\ reader_pc' = "while" =>
             (SectionsWritten(data_file') # SectionsWritten(data_file)
                  <=> (is_reading /\ elapsed > GapQuarters))]_vars
    /\ [][(reader_pc # "gap" /\ reader_pc # "start")
              => SectionsWritten(data_file') = SectionsWritten(data_file)]_vars
    /\ [][SectionsWritten(data_file') # SectionsWritten(data_file) /\ reader_pc = "gap"
              => /\ Cardinality(SectionsWritten(data_file'))
                        = Cardinality(SectionsWritten(data_file)) + 1
                 /\ ~is_reading']_vars
    /\ [](\A a, b \in SectionsWritten(data_file) :
              a < b => \E n \in a + 1..b - 1 : data_file[n].kind = "number")
    /\ [](reader_pc \in {"while", "in_waiting", "readline"} =>
              \A n \in DOMAIN data_file : data_file[n].kind = "number" => n <= flushed)

\* two gaps have each given one header, the second after a line that is not a
\* reading was skipped during the silence
C26_Witness ==
    /\ Cardinality(SectionsWritten(data_file)) = 3
    /\ arrived = 3
    /\ Len(data_file) = 7
    /\ port_buffer = <<>>
    /\ reader_pc = "while"
    /\ elapsed > GapQuarters

\* the readings written in the i-th section of the file of the monitor
WrittenReadings(f, i) ==
    LET at(k) == CHOOSE h \in SectionsWritten(f) :
                     Cardinality({m \in SectionsWritten(f) : m <= h}) = k
        last == IF i = Cardinality(SectionsWritten(f)) THEN Len(f) ELSE at(i + 1) - 1
        body == SelectSeq(SubSeq(f, at(i) + 1, last), IsReading)
    IN  [k \in 1..Len(body) |-> body[k].v]

\* C27: parse_height_map_file reads the file read_serial_data has written:
\* it returns a grid with one row for each section written, the row holding
\* the readings of the section in the order written.
C27_WrittenFileParses ==
    (reader_pc = "done" /\ map_pc \notin {"idle", "lines"}) =>
        /\ map_pc # "raised"
        /\ map_pc = "returned" =>
               /\ Len(map_grid) = Cardinality(SectionsWritten(data_file))
               /\ \A i \in DOMAIN map_grid :
                      IsPrefix(WrittenReadings(data_file, i), map_grid[i])

\* C24: when the pass has dealt with a motion command that gives X and Y,
\* a G0 whose Z was offset by the surface height included, the current
\* position holds that X and Y, so that the next command is interpolated from
\* the target of the command before it.
C24_PositionFollowsMotion ==
    [][(/\ pc = "lines" /\ pc' = "lines"
        /\ line_no' = line_no + 1
        /\ gcode_lines[line_no].cmd \in MotionCommands
        /\ IsNum(parse_coordinates(gcode_lines[line_no]), "X")
        /\ IsNum(parse_coordinates(gcode_lines[line_no]), "Y"))
       => /\ current_pos'["X"] = parse_coordinates(gcode_lines[line_no])["X"]
          /\ current_pos'["Y"] = parse_coordinates(gcode_lines[line_no])["Y"]]_vars

\* the two cells of a pair after the pair was examined: their mean when both
\* are numbers that differ by more than the threshold, else as they were
PairAfter(a, b) ==
    IF a # NaN /\ b # NaN /\ Abs(Val(b) - Val(a)) > threshold
    THEN << Some((Val(a) + Val(b)) \div 2), Some((Val(a) + Val(b)) \div 2) >>
    ELSE << a, b >>

\* the step of the smoother at the cell (smooth_j, smooth_i)
CellStep ==
    /\ smooth_pc = "cells" /\ smooth_pc' = "cells"
    /\ smooth_j <= y_count(height_map)
    /\ << smooth_j', smooth_i' >> # << smooth_j, smooth_i >>

\* C25: a pass visits the cells row by row from the top, and from left to
\* right in a row; at a cell the pair with the right neighbour is examined
\* first, then the pair with the neighbour below, which sees the value the
\* first pair has left in the cell; a pair that differs by more than the
\* threshold has both cells set to its mean, any other pair and every other
\* cell is left as it was.
C25_RowMajorPairs ==
    /\ [][(smooth_pc = "loop" /\ smooth_pc' = "cells") =>
              (smooth_j' = 1 /\ smooth_i' = 1)]_vars
    /\ [][CellStep =>
              LET j == smooth_j
                  i == smooth_i
                  hasRight == i < x_count(height_map)
                  hasDown == j < y_count(height_map)
                  first == IF hasRight
                           THEN PairAfter(height_map[j][i], height_map[j][i + 1])
                           ELSE << height_map[j][i], NaN >>
                  second == IF hasDown
                            THEN PairAfter(first[1], height_map[j + 1][i])
                            ELSE << first[1], NaN >>
              IN  /\ << smooth_j', smooth_i' >> =
                         IF hasRight THEN << j, i + 1 >> ELSE << j + 1, 1 >>
                  /\ height_map'[j][i] = second[1]
                  /\ hasRight => height_map'[j][i + 1] = first[2]
                  /\ hasDown => height_map'[j + 1][i] = second[2]
                  /\ \A n \in DOMAIN height_map : \A m \in DOMAIN height_map[n] :
                         << n, m >> \notin {<< j, i >>, << j, i + 1 >>, << j + 1, i >>}
                             => height_map'[n][m] = height_map[n][m]]_vars

\* in the first pass over a grid with 0 at the top left and 10 to its right
\* and below it, the first cell was averaged with its right neighbour and the
\* result, 5, with the cell below
C25_Witness ==
    /\ smooth_pc = "cells"
    /\ iteration = 0
    /\ smooth_j = 1 /\ smooth_i = 2
    /\ y_count(height_map) = 2
    /\ height_map_in[1][1] = Some(0)
    /\ height_map_in[1][2] = Some(10 * HeightUnit)
    /\ height_map_in[2][1] = Some(10 * HeightUnit)
    /\ height_map[1][2] = Some(5 * HeightUnit)
    /\ height_map[1][1] = height_map[2][1]
    /\ 2 * Val(height_map[1][1]) = 15 * HeightUnit

RECURSIVE SumOver(_, _)
\* the sum of the cells of a grid that are not NaN
SumOver(grid, cells) ==
    IF cells = <<>> THEN 0
    ELSE (IF Cell(grid, Head(cells)[1], Head(cells)[2]) = NaN THEN 0
          ELSE Val(Cell(grid, Head(cells)[1], Head(cells)[2])))
         + SumOver(grid, Tail(cells))

\* the cells next to (j, i) in its row and in its column
Neighbours(grid, j, i) ==
    {c \in {<< j, i - 1 >>, << j, i + 1 >>, << j - 1, i >>, << j + 1, i >>} :
        c[1] \in DOMAIN grid /\ c[2] \in DOMAIN grid[c[1]]}

\* C28: at every point of smooth_height_map the sum of the cells that are not
\* NaN is the sum of the grid passed in; a NaN cell stays NaN and no other cell
\* becomes NaN; a cell whose neighbours are all NaN keeps its value.
C28_MassAndMissingData ==
    (smooth_pc # "idle") =>
        /\ SumOver(height_map, GridCells(height_map))
               = SumOver(height_map_in, GridCells(height_map_in))
        /\ \A j \in DOMAIN height_map : \A i \in DOMAIN height_map[j] :
               /\ (height_map[j][i] = NaN) <=> (height_map_in[j][i] = NaN)
               /\ (\A c \in Neighbours(height_map_in, j, i) :
                       height_map_in[c[1]][c[2]] = NaN)
                      => height_map[j][i] = height_map_in[j][i]

\* a grid with a NaN cell at the top left was smoothed: the cell to the right
\* of the NaN cell was averaged with the cell below it, and the cell under the
\* NaN cell is still a number
C28_Witness ==
    /\ smooth_pc = "returned"
    /\ y_count(height_map) = 2
    /\ height_map_in[1][1] = NaN
    /\ height_map[1][2] # height_map_in[1][2]
    /\ height_map[2][2] # height_map_in[2][2]
    /\ height_map[2][1] # NaN

\* the blocks of a grid: the cells (j, i), 0-based, whose four cells (j, i),
\* (j, i+1), (j+1, i), (j+1, i+1) exist and are not NaN, in row-major order
BlockCells(c) == {c, << c[1], c[2] + 1 >>, << c[1] + 1, c[2] >>, << c[1] + 1, c[2] + 1 >>}

Blocks(grid) ==
    LET whole(c) == \A d \in BlockCells(c) :
                        /\ d[1] < y_count(grid) /\ d[2] < x_count(grid)
                        /\ Cell(grid, d[1], d[2]) # NaN
    IN  SelectSeq(GridCells(grid), whole)

\* the cell for which vertex v (0-based) was created: the (v+1)-th cell that
\* is not NaN
CellOfVertex(grid, v) ==
    LET keep(c) == Cell(grid, c[1], c[2]) # NaN
    IN  SelectSeq(GridCells(grid), keep)[v + 1]

\* C29: create_stl_mesh_from_height_map returns, for a grid with or without
\* NaN padding, two faces for each block of four cells that are not NaN; the
\* indices of a face are indices of the vertex list, and the vertices of the
\* two faces of a block are those created for the four cells of the block.
C29_FacesOfBlocks ==
    mesh_pc \in {"returned", "raised"} =>
        /\ mesh_pc = "returned"
        /\ Len(faces) = 2 * Len(Blocks(mesh_height_map))
        /\ \A n \in DOMAIN faces : \A k \in 1..3 :
               faces[n][k] >= 0 /\ faces[n][k] < Len(vertices)
        /\ \A b \in DOMAIN Blocks(mesh_height_map) :
               {CellOfVertex(mesh_height_map, faces[n][k]) : n \in {2 * b - 1, 2 * b}, k \in 1..3}
                   = BlockCells(Blocks(mesh_height_map)[b])

\* C30: in the necklace designer undo() followed at once by redo(), from a
\* state with a non-empty undo stack, leaves the positions of the letters and
\* both stacks as they were before undo(); undo() with an empty undo stack
\* and redo() with an empty redo stack change nothing; push_undo_state (here
\* called by move_callback) leaves the redo stack empty.
C30_UndoRedoRoundTrip ==
    /\ [](last_call = "redo" /\ before_undo # None =>
              <<letter_items, undo_stack, redo_stack>> = Val(before_undo))
    /\ [][/\ (last_call' = "undo" /\ undo_stack = <<>>) =>
                 UNCHANGED <<letter_items, undo_stack, redo_stack>>
          /\ (last_call' = "redo" /\ redo_stack = <<>>) =>
                 UNCHANGED <<letter_items, undo_stack, redo_stack>>
          /\ last_call' = "move_callback" => redo_stack' = <<>>]_vars

====
